---- MODULE Spec2Model ----
(***************************************************************************)
(* Pricing and quantity calculation engine of the HVAC insulation          *)
(* estimator (hvac_insulation_estimator.py) and the callers that turn its  *)
(* output into a quote: the estimator's main(), the /generate_quote        *)
(* endpoint (main.py), the bid-package app (guaranteed_insulation_app.py)  *)
(* and the calculate_estimate script.                                      *)
(*                                                                         *)
(* Numbers.  The code computes in floating point; the model computes the   *)
(* same expressions exactly, in fixed point.  Every numeric field has a    *)
(* denominator named below, and a quantity or an amount of money is a      *)
(* pair [r, p] standing for (r + p * pi) / denominator, because the        *)
(* jacketing and mastic areas are multiples of pi and pi is irrational:    *)
(* two such values are equal exactly when both components are equal.       *)
(*                                                                         *)
(* Text.  Strings are TLA+ strings; Len, \o and SubSeq act on them         *)
(* character by character as Python's len, + and slicing do.               *)
(***************************************************************************)
EXTENDS Integers, Sequences, FiniteSets, TLC

(***************************************************************************)
(* Bounds of the model (not program constants).                            *)
(***************************************************************************)
\* longest list of specifications handed to the engine
MaxSpecs == 2
\* longest list of measurements handed to the engine
MaxMeas == 2
\* the half minutes between a request and its repetition, at most
MaxElapsed == 2
\* the specifications and measurements, together, of a request whose
\* repetition is followed
MaxRepeated == 3

(***************************************************************************)
(* Fixed-point denominators.                                               *)
(***************************************************************************)
\* measurement.length is in half feet
LenDen == 2
\* spec.thickness and a parsed diameter are in half inches
InchDen == 2
\* a fitting multiplier is in halves (0.5 per elbow)
MultDen == 2
\* MaterialItem.quantity: (r + p*pi)/48 = LenDen * InchDen * 12 (inches per foot)
QtyDen == 48
\* a price of the price table is in quarter dollars
PriceDen == 4
\* engine.markup is in twentieths (1.15 = 23/20)
MarkupDen == 20
\* MaterialItem.unit_price = price * markup: PriceDen * MarkupDen
UnitPriceDen == 80
\* the engine's labor rates are in twentieths of an hour per unit
RateDen == 20
\* labor hours: QtyDen * RateDen * 5 (the overhead 1.20 = 6/5)
HoursDen == 4800
\* money (total_price, labor_cost, subtotal): lcm(QtyDen*UnitPriceDen, HoursDen)
MoneyDen == 19200
\* quote.total: MoneyDen * 100 (contingency is a whole percentage); a total is
\* held as [r, p, r100, p100], standing for
\* (100 * r + r100 + (100 * p + p100) * pi) / TotalDen with 0 <= r100, p100 < 100,
\* so that totals beyond 32 bits of 1/TotalDen keep their exact value
TotalDen == 1920000

(***************************************************************************)
(* Exact values (r + p*pi)/den.                                            *)
(***************************************************************************)
Num(r, p) == [r |-> r, p |-> p]
Zero == Num(0, 0)
NAdd(a, b) == Num(a.r + b.r, a.p + b.p)
NScale(a, k) == Num(a.r * k, a.p * k)
\* a > b for two values of the same denominator and without a pi part
NGreater(a, b) == a.p = 0 /\ b.p = 0 /\ a.r > b.r

\* a value of 1/MoneyDen as a total, and the sum of two totals
Wide(a) == [r |-> a.r, p |-> a.p, r100 |-> 0, p100 |-> 0]
WAdd(a, b) ==
    [r |-> a.r + b.r + (a.r100 + b.r100) \div 100,
     p |-> a.p + b.p + (a.p100 + b.p100) \div 100,
     r100 |-> (a.r100 + b.r100) % 100,
     p100 |-> (a.p100 + b.p100) % 100]
\* a * (k / 100), as a total, for a non-negative value a of 1/MoneyDen
Percent(a, k) ==
    [r |-> (a.r \div 100) * k + ((a.r % 100) * k) \div 100,
     p |-> (a.p \div 100) * k + ((a.p % 100) * k) \div 100,
     r100 |-> ((a.r % 100) * k) % 100,
     p100 |-> ((a.p % 100) * k) % 100]

(***************************************************************************)
(* Python's str operations used by the engine.                             *)
(***************************************************************************)
LowerAlphabet == "abcdefghijklmnopqrstuvwxyz"
UpperAlphabet == "ABCDEFGHIJKLMNOPQRSTUVWXYZ"
Digits == "0123456789"

CharAt(s, i) == SubSeq(s, i, i)
UpperChars == {CharAt(UpperAlphabet, i) : i \in 1..26}
LowerChars == {CharAt(LowerAlphabet, i) : i \in 1..26}
DigitChars == {CharAt(Digits, i) : i \in 1..10}
ToLower == [c \in UpperChars |->
               CharAt(LowerAlphabet, CHOOSE i \in 1..26 : CharAt(UpperAlphabet, i) = c)]
ToUpper == [c \in LowerChars |->
               CharAt(UpperAlphabet, CHOOSE i \in 1..26 : CharAt(LowerAlphabet, i) = c)]
ToDigit == [c \in DigitChars |-> (CHOOSE i \in 1..10 : CharAt(Digits, i) = c) - 1]

IsUpper(c) == c \in UpperChars
IsLower(c) == c \in LowerChars
IsCased(c) == IsUpper(c) \/ IsLower(c)
IsDigit(c) == c \in DigitChars
DigitValue(c) == ToDigit[c]

lower_char(c) == IF IsUpper(c) THEN ToLower[c] ELSE c
upper_char(c) == IF IsLower(c) THEN ToUpper[c] ELSE c

\* str.lower()
RECURSIVE lower(_)
lower(s) ==
    IF s = "" THEN "" ELSE lower_char(CharAt(s, 1)) \o lower(SubSeq(s, 2, Len(s)))

\* str.title(): a cased character is upper-cased after an uncased one (or at
\* the start) and lower-cased after a cased one
RECURSIVE title_from(_, _)
title_from(s, prev_cased) ==
    IF s = "" THEN ""
    ELSE LET c == CharAt(s, 1) IN
         (IF prev_cased THEN lower_char(c) ELSE upper_char(c))
             \o title_from(SubSeq(s, 2, Len(s)), IsCased(c))
title(s) == title_from(s, FALSE)

\* Python's  t in s  for strings
Contains(s, t) ==
    \E i \in 1..(Len(s) - Len(t) + 1) : SubSeq(s, i, i + Len(t) - 1) = t

\* str(n) for a natural number
RECURSIVE NatToStr(_)
NatToStr(n) ==
    IF n < 10 THEN CharAt(Digits, n + 1)
    ELSE NatToStr(n \div 10) \o CharAt(Digits, (n % 10) + 1)

\* str(x) of a float that is a multiple of 0.5, given in halves: 3 -> "1.5", 4 -> "2.0"
FloatToStr(halves) ==
    NatToStr(halves \div 2) \o "." \o (IF halves % 2 = 1 THEN "5" ELSE "0")

(***************************************************************************)
(* Data model: InsulationSpec, MeasurementItem, MaterialItem.               *)
(***************************************************************************)
\* Python's None where a str is expected (InsulationSpec.facing)
None == "<None>"
\* Python's truth value of an Optional[str]
Truthy(s) == s # None /\ s # ""
\* the None returned in place of an InsulationSpec or a ProjectQuote
NoSpec == [none |-> TRUE]
NoQuote == [none |-> TRUE]
\* price_book_path = None
NoPriceBook == [none |-> TRUE]

InsulationSpec(system_type, size_range, thickness, material, facing, special_requirements, location) ==
    [system_type |-> system_type, size_range |-> size_range, thickness |-> thickness,
     material |-> material, facing |-> facing,
     special_requirements |-> special_requirements, location |-> location]

MeasurementItem(item_id, system_type, size, length, location, elevation_changes, fittings, notes) ==
    [item_id |-> item_id, system_type |-> system_type, size |-> size, length |-> length,
     location |-> location, elevation_changes |-> elevation_changes,
     fittings |-> fittings, notes |-> notes]

MaterialItem(description, unit, quantity, unit_price, total_price, category) ==
    [description |-> description, unit |-> unit, quantity |-> quantity,
     unit_price |-> unit_price, total_price |-> total_price, category |-> category]

\* Python's  x in l  for a list
InList(x, l) == \E i \in 1..Len(l) : l[i] = x

\* dict.get(key, default) on a dict modelled as a function
DictGet(d, key, default) == IF key \in DOMAIN d THEN d[key] ELSE default
\* the empty dict
EmptyDict == [k \in {} |-> 0]

(***************************************************************************)
(* The specifications and measurements the model draws its inputs from.    *)
(***************************************************************************)
\* thickness in half inches, length in half feet
SpecPool ==
    {InsulationSpec("duct", "12-24 inch", 3, "fiberglass", "FSK", <<>>, "indoor"),
     InsulationSpec("duct", "all sizes", 4, "fiberglass", None,
                    <<"aluminum_jacket", "mastic_coating", "stainless_bands">>, "outdoor"),
     InsulationSpec("pipe", "1/2-2 inch", 2, "elastomeric", None, <<>>, "indoor"),
     InsulationSpec("pipe", "2-6 inch", 1, "mineral_wool", "ASJ", <<"mastic_coating">>, "outdoor roof")}

MeasurementPool ==
    {MeasurementItem("D-1", "duct", "18x12", 2, "Roof", 0, [k \in {"elbow", "tee"} |-> IF k = "elbow" THEN 2 ELSE 1], <<>>),
     MeasurementItem("D-2", "duct", "Duct 10", 1, "Main corridor", 5, EmptyDict, <<"verify in field">>),
     MeasurementItem("P-1", "pipe", "2.5\"", 3, "Exterior wall", 11, [k \in {"elbow"} |-> 1], <<>>),
     MeasurementItem("P-2", "pipe", "round", 2, "Below grade vault", 0,
                     [k \in {"valve", "tee"} |-> IF k = "valve" THEN 3 ELSE 2], <<>>)}

(***************************************************************************)
(* Exceptions: an operation returns [exc, value]; exc = "" when it         *)
(* returned normally.                                                      *)
(***************************************************************************)
Ok(v) == [exc |-> "", value |-> v]
Raise(e) == [exc |-> e, value |-> <<>>]

(***************************************************************************)
(* PricingEngine.                                                          *)
(***************************************************************************)
\* PricingEngine._load_prices without a price book: the default table, in
\* quarter dollars.  It holds the insulation keys and the keys the engine
\* reads by name; the remaining entries of the source's table (pvc and
\* stainless jackets, fitting covers, adhesive, vapor seal, corner beads,
\* tape, labor modifiers) are read by no operation of the engine.
DefaultPrices ==
    [k \in {"fiberglass_1.5", "fiberglass_2.0", "elastomeric_0.5", "elastomeric_1.0",
             "cellular_glass_1.0", "mineral_wool_1.5",
             "fsk_facing", "asj_facing", "aluminum_jacket", "mastic", "stainless_bands"} |->
        CASE k = "fiberglass_1.5" -> 18
          [] k = "fiberglass_2.0" -> 23
          [] k = "elastomeric_0.5" -> 13
          [] k = "elastomeric_1.0" -> 18
          [] k = "cellular_glass_1.0" -> 27
          [] k = "mineral_wool_1.5" -> 21
          [] k = "fsk_facing" -> 5
          [] k = "asj_facing" -> 7
          [] k = "aluminum_jacket" -> 34
          [] k = "mastic" -> 3
          [] k = "stainless_bands" -> 10]

\* PricingEngine._load_prices: the table of the price book when a path is
\* given (json.load: any flat mapping), else the default table
_load_prices(price_book) == IF price_book = NoPriceBook THEN DefaultPrices ELSE price_book

\* PricingEngine.__init__
PricingEngine(price_book, markup) ==
    [markup |-> markup,
     prices |-> _load_prices(price_book),
     labor_rates |-> [duct_insulation |-> 9, pipe_insulation |-> 7, jacketing |-> 5, mastic |-> 3]]

\* a variant of _find_applicable_spec whose loop does not return at the first
\* match, so that the last match wins
RECURSIVE _find_applicable_spec_last(_, _)
_find_applicable_spec_last(measurement, specs) ==
    IF specs = <<>> THEN NoSpec
    ELSE LET later == _find_applicable_spec_last(measurement, Tail(specs))
         IN IF later # NoSpec THEN later
            ELSE IF Head(specs).system_type = measurement.system_type THEN Head(specs)
            ELSE NoSpec

\* PricingEngine._find_applicable_spec
RECURSIVE _find_applicable_spec(_, _)
_find_applicable_spec(measurement, specs) ==
    IF specs = <<>> THEN NoSpec
    ELSE IF Head(specs).system_type = measurement.system_type THEN Head(specs)
    ELSE _find_applicable_spec(measurement, Tail(specs))

\* int(s) of a string of digits
RECURSIVE DigitsToNat(_)
DigitsToNat(s) ==
    IF s = "" THEN 0
    ELSE 10 * DigitsToNat(SubSeq(s, 1, Len(s) - 1)) + DigitValue(CharAt(s, Len(s)))

\* the end of the longest run of digits of s that starts at position i
RECURSIVE DigitRunEnd(_, _)
DigitRunEnd(s, i) ==
    IF i < Len(s) /\ IsDigit(CharAt(s, i + 1)) THEN DigitRunEnd(s, i + 1) ELSE i

\* re.findall(r"\d+(?:\.\d+)?", size)[0] as [int_part, frac_part], or NoSpec's
\* like [none |-> TRUE] when size holds no digit: the leftmost longest match
FirstNumber(size) ==
    IF \A i \in 1..Len(size) : ~IsDigit(CharAt(size, i)) THEN [none |-> TRUE]
    ELSE LET i == CHOOSE k \in 1..Len(size) :
                      IsDigit(CharAt(size, k)) /\ \A h \in 1..(k - 1) : ~IsDigit(CharAt(size, h))
             j == DigitRunEnd(size, i)
             has_frac == j + 2 <= Len(size) /\ CharAt(size, j + 1) = "."
                         /\ IsDigit(CharAt(size, j + 2))
         IN [int_part |-> SubSeq(size, i, j),
             frac_part |-> IF has_frac THEN SubSeq(size, j + 2, DigitRunEnd(size, j + 2)) ELSE ""]

\* float(token) in half inches; exact when the fraction is a multiple of 0.5,
\* as it is for every size of the model
TokenToHalves(tok) ==
    InchDen * DigitsToNat(tok.int_part)
        + (IF tok.frac_part # "" /\ DigitValue(CharAt(tok.frac_part, 1)) >= 5 THEN 1 ELSE 0)

\* PricingEngine._parse_size_to_diameter (half inches)
_parse_size_to_diameter(size) ==
    LET numbers == FirstNumber(size) IN
    IF numbers # [none |-> TRUE] THEN TokenToHalves(numbers) ELSE 12 * InchDen

\* MaterialItem.description of _calculate_insulation
InsulationDescription(spec, measurement) ==
    title(spec.material) \o " Insulation " \o FloatToStr(spec.thickness) \o "\" - " \o measurement.size

\*  "duct" in material.description.lower()  of calculate_labor
MentionsDuct(description) == Contains(lower(description), "duct")

(***************************************************************************)
(* The string functions above, evaluated once for the strings the inputs   *)
(* of the model can produce; any other argument is evaluated directly, so  *)
(* a table changes no value.                                               *)
(***************************************************************************)
\* table[key] where the table holds the key, else the value computed directly
Lookup(table, key, direct) == IF key \in DOMAIN table THEN table[key] ELSE direct
Range(f) == {f[x] : x \in DOMAIN f}

DiameterTable == [size \in {m.size : m \in MeasurementPool} |-> _parse_size_to_diameter(size)]
DiameterOf(size) == Lookup(DiameterTable, size, _parse_size_to_diameter(size))

\* the description is a function of the material, the thickness and the size
DescriptionTable ==
    [key \in {<<sp.material, sp.thickness, m.size>> : sp \in SpecPool, m \in MeasurementPool} |->
        InsulationDescription([material |-> key[1], thickness |-> key[2]], [size |-> key[3]])]
DescriptionOf(spec, measurement) ==
    Lookup(DescriptionTable, <<spec.material, spec.thickness, measurement.size>>,
           InsulationDescription(spec, measurement))

MentionsDuctTable == [d \in Range(DescriptionTable) |-> MentionsDuct(d)]
MentionsDuctOf(description) ==
    Lookup(MentionsDuctTable, description, MentionsDuct(description))

\* measurement.fittings.get(kind, 0), under  if measurement.fittings:
FittingCount(measurement, kind) == DictGet(measurement.fittings, kind, 0)

\* MaterialItem(..., total_price=quantity * unit_price, ...): quantity in
\* 1/QtyDen, unit_price in 1/UnitPriceDen, total_price in 1/MoneyDen
PricedItem(description, unit, quantity, unit_price, category) ==
    MaterialItem(description, unit, quantity, unit_price,
                 NScale(quantity, unit_price * (MoneyDen \div (QtyDen * UnitPriceDen))),
                 category)

\* a variant of _calculate_insulation that adds 0.5 for a tee as for an elbow
_calculate_insulation_tee_half(self, measurement, spec) ==
    LET fitting_multiplier ==
            IF measurement.fittings # EmptyDict
            THEN MultDen + FittingCount(measurement, "elbow") * 1
                         + FittingCount(measurement, "tee") * 1
            ELSE MultDen
    IN PricedItem(DescriptionOf(spec, measurement), "LF",
                  Num(measurement.length * fitting_multiplier * (QtyDen \div (LenDen * MultDen)), 0),
                  DictGet(self.prices, spec.material \o "_" \o FloatToStr(spec.thickness), 20)
                      * self.markup,
                  "insulation")

\* a variant of _calculate_insulation that counts whole feet of length only
_calculate_insulation_whole_feet(self, measurement, spec) ==
    LET fitting_multiplier ==
            IF measurement.fittings # EmptyDict
            THEN MultDen + FittingCount(measurement, "elbow") * 1
                         + FittingCount(measurement, "tee") * 2
            ELSE MultDen
    IN PricedItem(DescriptionOf(spec, measurement), "LF",
                  Num((measurement.length \div LenDen) * LenDen * fitting_multiplier
                          * (QtyDen \div (LenDen * MultDen)), 0),
                  DictGet(self.prices, spec.material \o "_" \o FloatToStr(spec.thickness), 20)
                      * self.markup,
                  "insulation")

\* PricingEngine._calculate_insulation
_calculate_insulation(self, measurement, spec) ==
    LET quantity == measurement.length
        fitting_multiplier ==
            IF measurement.fittings # EmptyDict
            THEN MultDen + FittingCount(measurement, "elbow") * 1
                         + FittingCount(measurement, "tee") * 2
            ELSE MultDen
        \* length/LenDen * multiplier/MultDen, in 1/QtyDen
        adjusted_quantity == Num(quantity * fitting_multiplier * (QtyDen \div (LenDen * MultDen)), 0)
        price_key == spec.material \o "_" \o FloatToStr(spec.thickness)
        unit_price == DictGet(self.prices, price_key, 20) * self.markup
    IN PricedItem(DescriptionOf(spec, measurement), "LF", adjusted_quantity, unit_price,
                  "insulation")

\* a variant of SquareFeet on the length adjusted for fittings
SquareFeet_adjusted(measurement, spec) ==
    Num(0, ((measurement.length * (MultDen + FittingCount(measurement, "elbow")
                                           + 2 * FittingCount(measurement, "tee"))) \div MultDen)
               * (DiameterOf(measurement.size) + 2 * spec.thickness))

\* measurement.length * pi * (size_diameter + 2 * spec.thickness) / 12, in 1/QtyDen:
\* length/LenDen * pi * (diameter + 2*thickness)/InchDen / 12
SquareFeet(measurement, spec) ==
    LET size_diameter == DiameterOf(measurement.size)
    IN Num(0, measurement.length * (size_diameter + 2 * spec.thickness))

\* PricingEngine._calculate_jacketing
_calculate_jacketing(self, measurement, spec) ==
    LET square_feet == SquareFeet(measurement, spec)
        aluminum == InList("aluminum_jacket", spec.special_requirements)
        facing_description == IF Truthy(spec.facing) THEN spec.facing ELSE "Facing"
        description == IF aluminum THEN "Aluminum Jacketing - " \o measurement.size
                       ELSE facing_description \o " Facing - " \o measurement.size
    IN IF aluminum /\ "aluminum_jacket" \notin DOMAIN self.prices THEN Raise("KeyError")
       ELSE LET unit_price == IF aluminum THEN self.prices["aluminum_jacket"] * self.markup
                              ELSE DictGet(self.prices, "fsk_facing", 5) * self.markup
            IN Ok(PricedItem(description, "SF", square_feet, unit_price, "jacket"))

\* PricingEngine._calculate_mastic
_calculate_mastic(self, measurement, spec) ==
    LET square_feet == SquareFeet(measurement, spec)
    IN IF "mastic" \notin DOMAIN self.prices THEN Raise("KeyError")
       ELSE Ok(PricedItem("Mastic Vapor Seal Coating", "SF", square_feet,
                          self.prices["mastic"] * self.markup, "mastic"))

\* PricingEngine._calculate_accessories
_calculate_accessories(self, measurement, spec) ==
    IF InList("stainless_bands", spec.special_requirements)
    THEN LET band_count == (measurement.length \div LenDen) + 1
         IN IF "stainless_bands" \notin DOMAIN self.prices THEN Raise("KeyError")
            ELSE Ok(<<PricedItem("Stainless Steel Bands", "EA", Num(band_count * QtyDen, 0),
                                 self.prices["stainless_bands"] * self.markup, "accessories")>>)
    ELSE Ok(<<>>)

\* materials.append(item) and materials.extend(items), where materials is the
\* list gathered so far or the exception raised so far, and computing the
\* item may raise
AppendTo(materials, item) ==
    IF materials.exc # "" THEN materials
    ELSE IF item.exc # "" THEN Raise(item.exc)
    ELSE Ok(Append(materials.value, item.value))
ExtendWith(materials, items) ==
    IF materials.exc # "" THEN materials
    ELSE IF items.exc # "" THEN Raise(items.exc)
    ELSE Ok(materials.value \o items.value)
\* if condition: materials.append(item)
AppendIf(condition, materials, item) ==
    IF materials.exc = "" /\ condition THEN AppendTo(materials, item) ELSE materials

\* a variant of the loop body that adds a jacket only for a facing, not for
\* the aluminum_jacket requirement
MeasurementItems_facing_only(self, measurement, specs) ==
    LET spec == _find_applicable_spec(measurement, specs) IN
    IF spec = NoSpec THEN Ok(<<>>)
    ELSE ExtendWith(
             AppendIf(InList("mastic_coating", spec.special_requirements),
                 AppendIf(Truthy(spec.facing),
                     Ok(<<_calculate_insulation(self, measurement, spec)>>),
                     _calculate_jacketing(self, measurement, spec)),
                 _calculate_mastic(self, measurement, spec)),
             _calculate_accessories(self, measurement, spec))

\* the body of calculate_materials' loop: the items one measurement adds, in
\* the order the body appends them
MeasurementItems(self, measurement, specs) ==
    LET spec == _find_applicable_spec(measurement, specs) IN
    IF spec = NoSpec THEN Ok(<<>>)
    ELSE ExtendWith(
             AppendIf(InList("mastic_coating", spec.special_requirements),
                 AppendIf(Truthy(spec.facing)
                            \/ InList("aluminum_jacket", spec.special_requirements),
                     Ok(<<_calculate_insulation(self, measurement, spec)>>),
                     _calculate_jacketing(self, measurement, spec)),
                 _calculate_mastic(self, measurement, spec)),
             _calculate_accessories(self, measurement, spec))

\* a variant of the loop that stops at the first measurement without a
\* specification instead of going on to the next
RECURSIVE calculate_materials_from_break(_, _, _, _)
calculate_materials_from_break(self, materials, measurements, specs) ==
    IF measurements = <<>> \/ materials.exc # "" THEN materials
    ELSE IF _find_applicable_spec(Head(measurements), specs) = NoSpec THEN materials
    ELSE calculate_materials_from_break(
             self, ExtendWith(materials, MeasurementItems(self, Head(measurements), specs)),
             Tail(measurements), specs)

\* PricingEngine.calculate_materials: the loop over the measurements, from
\* the materials gathered so far; it ends at the first exception
RECURSIVE calculate_materials_from(_, _, _, _)
calculate_materials_from(self, materials, measurements, specs) ==
    IF measurements = <<>> \/ materials.exc # "" THEN materials
    ELSE calculate_materials_from(
             self, ExtendWith(materials, MeasurementItems(self, Head(measurements), specs)),
             Tail(measurements), specs)

calculate_materials(self, measurements, specs) ==
    calculate_materials_from(self, Ok(<<>>), measurements, specs)

\* a variant of the hours of one material that charges accessories as jacketing
MaterialHours_accessories(self, material) ==
    IF material.category = "insulation"
    THEN IF MentionsDuctOf(material.description)
         THEN NScale(material.quantity, self.labor_rates.duct_insulation)
         ELSE NScale(material.quantity, self.labor_rates.pipe_insulation)
    ELSE IF material.category = "mastic"
    THEN NScale(material.quantity, self.labor_rates.mastic)
    ELSE NScale(material.quantity, self.labor_rates.jacketing)

\* the hours calculate_labor adds for one material (1/(QtyDen*RateDen) hours)
MaterialHours(self, material) ==
    IF material.category = "insulation"
    THEN IF MentionsDuctOf(material.description)
         THEN NScale(material.quantity, self.labor_rates.duct_insulation)
         ELSE NScale(material.quantity, self.labor_rates.pipe_insulation)
    ELSE IF material.category = "jacket"
    THEN NScale(material.quantity, self.labor_rates.jacketing)
    ELSE IF material.category = "mastic"
    THEN NScale(material.quantity, self.labor_rates.mastic)
    ELSE Zero

RECURSIVE SumHours(_, _)
SumHours(self, materials) ==
    IF materials = <<>> THEN Zero
    ELSE NAdd(MaterialHours(self, Head(materials)), SumHours(self, Tail(materials)))

\* PricingEngine.calculate_labor: (total_hours in 1/HoursDen, labor cost in 1/MoneyDen)
calculate_labor(self, materials) ==
    LET total_hours == NScale(SumHours(self, materials), 6)
        labor_rate == 65
    IN [hours |-> total_hours,
        cost |-> NScale(total_hours, labor_rate * (MoneyDen \div HoursDen))]

(***************************************************************************)
(* QuoteGenerator.                                                         *)
(***************************************************************************)
RECURSIVE SumTotalPrice(_)
SumTotalPrice(materials) ==
    IF materials = <<>> THEN Zero
    ELSE NAdd(Head(materials).total_price, SumTotalPrice(Tail(materials)))

\* ord(c) for the characters of the model's strings
Punctuation == {" ", "\"", "-", ".", "/", "_", "|"}
Ord == [c \in UpperChars \cup LowerChars \cup DigitChars \cup Punctuation |->
           CASE c \in UpperChars -> 64 + CHOOSE i \in 1..26 : CharAt(UpperAlphabet, i) = c
             [] c \in LowerChars -> 96 + CHOOSE i \in 1..26 : CharAt(LowerAlphabet, i) = c
             [] c \in DigitChars -> 48 + ToDigit[c]
             [] c = " " -> 32
             [] c = "\"" -> 34
             [] c = "-" -> 45
             [] c = "." -> 46
             [] c = "/" -> 47
             [] c = "_" -> 95
             [] c = "|" -> 124]

\* Python's  a < b  for strings: the first differing character decides, a
\* proper prefix is smaller
RECURSIVE StrLessFrom(_, _, _)
StrLessFrom(a, b, i) ==
    IF i > Len(b) THEN FALSE
    ELSE IF i > Len(a) THEN TRUE
    ELSE IF CharAt(a, i) = CharAt(b, i) THEN StrLessFrom(a, b, i + 1)
    ELSE Ord[CharAt(a, i)] < Ord[CharAt(b, i)]
StrLess(a, b) == StrLessFrom(a, b, 1)

\* a variant of the sort key's order that compares the descriptions only
MaterialListKeyLess_description(x, y) == StrLess(x.description, y.description)

\* (x["category"], x["description"]) < (y["category"], y["description"]):
\* Python's order of the tuples that are the sort key of the material list
MaterialListKeyLess(x, y) ==
    IF x.category # y.category THEN StrLess(x.category, y.category)
    ELSE StrLess(x.description, y.description)

\* sorted(values, key=...): a stable sort, as the insertion of each value
\* behind the values whose key is not greater
InsertAt(out, x, n) == SubSeq(out, 1, n) \o <<x>> \o SubSeq(out, n + 1, Len(out))
InsertSorted(out, x) ==
    InsertAt(out, x, Cardinality({i \in DOMAIN out : ~MaterialListKeyLess(x, out[i])}))
RECURSIVE SortedInto(_, _)
SortedInto(out, values) ==
    IF values = <<>> THEN out ELSE SortedInto(InsertSorted(out, Head(values)), Tail(values))
sorted(values) == SortedInto(<<>>, values)

\* key = f"{material.description}|{material.unit}"
MaterialKey(material) == material.description \o "|" \o material.unit

\* a variant of the loop body that keeps the first total_price of a key
ConsolidateOne_first_total(consolidated, material) ==
    IF \E i \in DOMAIN consolidated : consolidated[i].key = MaterialKey(material)
    THEN [i \in DOMAIN consolidated |->
             IF consolidated[i].key = MaterialKey(material)
             THEN [consolidated[i] EXCEPT !.value.quantity = NAdd(@, material.quantity)]
             ELSE consolidated[i]]
    ELSE Append(consolidated,
                [key |-> MaterialKey(material),
                 value |-> [description |-> material.description, unit |-> material.unit,
                            quantity |-> material.quantity, category |-> material.category,
                            total_price |-> material.total_price]])

\* the body of _generate_material_list's loop; consolidated is the dict, as
\* the list of its (key, value) pairs in insertion order
ConsolidateOne(consolidated, material) ==
    IF \E i \in DOMAIN consolidated : consolidated[i].key = MaterialKey(material)
    THEN [i \in DOMAIN consolidated |->
             IF consolidated[i].key = MaterialKey(material)
             THEN [consolidated[i] EXCEPT !.value.quantity = NAdd(@, material.quantity),
                                          !.value.total_price = NAdd(@, material.total_price)]
             ELSE consolidated[i]]
    ELSE Append(consolidated,
                [key |-> MaterialKey(material),
                 value |-> [description |-> material.description, unit |-> material.unit,
                            quantity |-> material.quantity, category |-> material.category,
                            total_price |-> material.total_price]])

RECURSIVE ConsolidateFrom(_, _)
ConsolidateFrom(consolidated, materials) ==
    IF materials = <<>> THEN consolidated
    ELSE ConsolidateFrom(ConsolidateOne(consolidated, Head(materials)), Tail(materials))

\* consolidated.values()
DictValues(consolidated) == [i \in DOMAIN consolidated |-> consolidated[i].value]

\* QuoteGenerator._generate_material_list
_generate_material_list(materials) == sorted(DictValues(ConsolidateFrom(<<>>, materials)))

\* sum(m.elevation_changes for m in measurements)
RECURSIVE SumElevationChanges(_)
SumElevationChanges(measurements) ==
    IF measurements = <<>> THEN 0
    ELSE Head(measurements).elevation_changes + SumElevationChanges(Tail(measurements))

\* f"Significant vertical work: {vertical_work} elevation changes"
VerticalWorkNote(vertical_work) ==
    "Significant vertical work: " \o NatToStr(vertical_work) \o " elevation changes"

\* the standard notes
StandardNotes ==
    <<"Pricing valid for 30 days",
      "Subject to final site verification",
      "Assumes clear access to work areas",
      "All work per project specifications and applicable codes">>

\* a variant of _generate_quote_notes that notes vertical work from 10
\* elevation changes on
_generate_quote_notes_from_ten(specs, measurements) ==
    (IF \E i \in DOMAIN specs : Contains(specs[i].location, "outdoor")
     THEN <<"Weather protection jacketing included for outdoor applications">> ELSE <<>>)
    \o (IF \E i \in DOMAIN specs : InList("mastic_coating", specs[i].special_requirements)
        THEN <<"Vapor seal mastic coating per specifications">> ELSE <<>>)
    \o (IF SumElevationChanges(measurements) >= 10
        THEN <<VerticalWorkNote(SumElevationChanges(measurements))>> ELSE <<>>)
    \o StandardNotes

\* QuoteGenerator._generate_quote_notes
_generate_quote_notes(specs, measurements) ==
    (IF \E i \in DOMAIN specs : Contains(specs[i].location, "outdoor")
     THEN <<"Weather protection jacketing included for outdoor applications">> ELSE <<>>)
    \o (IF \E i \in DOMAIN specs : InList("mastic_coating", specs[i].special_requirements)
        THEN <<"Vapor seal mastic coating per specifications">> ELSE <<>>)
    \o (IF SumElevationChanges(measurements) > 10
        THEN <<VerticalWorkNote(SumElevationChanges(measurements))>> ELSE <<>>)
    \o StandardNotes

\* the instant the first request is served: 2025-01-14 23:59:00
FirstInstant == [year |-> 2025, month |-> 1, day |-> 14, hour |-> 23, minute |-> 59]

\* the minutes since the midnight before the first request, clock half
\* minutes after it
MinutesAt(clock) == FirstInstant.hour * 60 + FirstInstant.minute + clock \div 2

\* datetime.now(), clock half minutes after the first request (the days stay
\* within the month)
datetime_now(clock) ==
    [year |-> FirstInstant.year,
     month |-> FirstInstant.month,
     day |-> FirstInstant.day + MinutesAt(clock) \div 1440,
     hour |-> (MinutesAt(clock) % 1440) \div 60,
     minute |-> MinutesAt(clock) % 60,
     second |-> 30 * (clock % 2)]

\* a number in two digits, as %m, %d, %H and %M print it
TwoDigits(n) == IF n < 10 THEN "0" \o NatToStr(n) ELSE NatToStr(n)

\* strftime('%Y%m%d-%H%M')
QuoteNumberStamp(t) ==
    NatToStr(t.year) \o TwoDigits(t.month) \o TwoDigits(t.day) \o "-"
        \o TwoDigits(t.hour) \o TwoDigits(t.minute)

\* strftime("%Y-%m-%d")
DateStamp(t) == NatToStr(t.year) \o "-" \o TwoDigits(t.month) \o "-" \o TwoDigits(t.day)

\* a variant of generate_quote whose contingency grows with the clock
generate_quote_clocked(project_name, measurements, materials, labor_hours, labor_cost, specs, clock) ==
    [project_name |-> project_name,
     quote_number |-> "Q" \o QuoteNumberStamp(datetime_now(clock)),
     date |-> DateStamp(datetime_now(clock)),
     measurements |-> measurements,
     materials |-> materials,
     labor_hours |-> labor_hours,
     labor_rate |-> 65,
     subtotal |-> NAdd(SumTotalPrice(materials), labor_cost),
     contingency_percent |-> 10,
     total |-> Percent(NAdd(SumTotalPrice(materials), labor_cost), 110 + clock),
     notes |-> _generate_quote_notes(specs, measurements),
     material_list |-> _generate_material_list(materials)]

\* QuoteGenerator.generate_quote, called clock half minutes after the first
\* request (labor_cost in 1/MoneyDen, total in 1/TotalDen)
generate_quote(project_name, measurements, materials, labor_hours, labor_cost, specs, clock) ==
    LET material_total == SumTotalPrice(materials)
        subtotal == NAdd(material_total, labor_cost)
        contingency_percent == 10
        contingency == Percent(subtotal, contingency_percent)
        total == WAdd(Wide(subtotal), contingency)
    IN [project_name |-> project_name,
        quote_number |-> "Q" \o QuoteNumberStamp(datetime_now(clock)),
        date |-> DateStamp(datetime_now(clock)),
        measurements |-> measurements,
        materials |-> materials,
        labor_hours |-> labor_hours,
        labor_rate |-> 65,
        subtotal |-> subtotal,
        contingency_percent |-> contingency_percent,
        total |-> total,
        notes |-> _generate_quote_notes(specs, measurements),
        material_list |-> _generate_material_list(materials)]

\* QuoteGenerator(...): the class defines no __init__, so object's takes no
\* argument and any keyword argument raises TypeError
QuoteGenerator(keyword_arguments) ==
    IF keyword_arguments = {} THEN Ok([class |-> "QuoteGenerator"]) ELSE Raise("TypeError")

(***************************************************************************)
(* Ingestion: measurement entries as an extraction result or a JSON file   *)
(* holds them, made into MeasurementItems.                                 *)
(***************************************************************************)
\* a JSON number (given in halves) and a JSON string
JsonNumber(halves) == [type |-> "number", value |-> halves]
JsonString(text) == [type |-> "str", text |-> text]

\* float(x), in halves: a number as it is, a string of digits with or
\* without a minus sign as its value, any other string of the model
\* ("12 ft") a ValueError
float(x) ==
    IF x.type = "number" THEN Ok(x.value)
    ELSE IF x.text # "" /\ \A i \in 1..Len(x.text) : IsDigit(CharAt(x.text, i))
         THEN Ok(LenDen * DigitsToNat(x.text))
    ELSE IF Len(x.text) > 1 /\ CharAt(x.text, 1) = "-"
            /\ \A i \in 2..Len(x.text) : IsDigit(CharAt(x.text, i))
         THEN Ok(0 - LenDen * DigitsToNat(SubSeq(x.text, 2, Len(x.text))))
    ELSE Raise("ValueError")

\* the entries of the model: a duct of 1 ft, a pipe of -2 ft, a duct whose
\* length is the text "12 ft", and a pipe without an id whose length is the
\* text "3"
RawPool ==
    {[id |-> "D-1", item_id |-> "D-1", system_type |-> "duct", size |-> "18x12",
      length |-> JsonNumber(2), location |-> "Roof",
      fittings |-> [k \in {"elbow"} |-> 2]],
     [id |-> "P-1", item_id |-> "P-1", system_type |-> "pipe", size |-> "2.5\"",
      length |-> JsonNumber(0 - 4), location |-> "Exterior wall", elevation_changes |-> 11],
     [id |-> "D-2", item_id |-> "D-2", system_type |-> "duct", size |-> "Duct 10",
      length |-> JsonString("12 ft"), location |-> "Main corridor"],
     [system_type |-> "pipe", size |-> "round", length |-> JsonString("3")]}

\* DrawingMeasurementExtractor.manual_entry_measurements, from the entries
\* already made into measurements on
RECURSIVE manual_entry_from(_, _)
manual_entry_from(measurements, measurement_data) ==
    IF measurement_data = <<>> THEN Ok(measurements)
    ELSE IF {"system_type", "size", "length"} \ DOMAIN Head(measurement_data) # {}
         THEN Raise("KeyError")
    ELSE IF float(Head(measurement_data)["length"]).exc # ""
         THEN Raise(float(Head(measurement_data)["length"]).exc)
    ELSE manual_entry_from(
             Append(measurements,
                    MeasurementItem(
                        DictGet(Head(measurement_data), "id",
                                "MANUAL_" \o NatToStr(Len(measurements))),
                        Head(measurement_data)["system_type"],
                        Head(measurement_data)["size"],
                        float(Head(measurement_data)["length"]).value,
                        DictGet(Head(measurement_data), "location", "Indoor"),
                        DictGet(Head(measurement_data), "elevation_changes", 0),
                        DictGet(Head(measurement_data), "fittings", EmptyDict),
                        DictGet(Head(measurement_data), "notes", <<>>))),
             Tail(measurement_data))

\* DrawingMeasurementExtractor.manual_entry_measurements
manual_entry_measurements(measurement_data) == manual_entry_from(<<>>, measurement_data)

\* calculate_estimate.py load_measurements, from the entries already made
\* into items on
RECURSIVE load_measurements_from(_, _)
load_measurements_from(items, data) ==
    IF data = <<>> THEN Ok(items)
    ELSE IF float(DictGet(Head(data), "length", JsonNumber(0))).exc # ""
         THEN Raise(float(DictGet(Head(data), "length", JsonNumber(0))).exc)
    ELSE load_measurements_from(
             Append(items,
                    MeasurementItem(
                        DictGet(Head(data), "item_id", ""),
                        DictGet(Head(data), "system_type", "duct"),
                        DictGet(Head(data), "size", ""),
                        float(DictGet(Head(data), "length", JsonNumber(0))).value,
                        DictGet(Head(data), "location", ""),
                        DictGet(Head(data), "elevation_changes", 0),
                        DictGet(Head(data), "fittings", EmptyDict),
                        DictGet(Head(data), "notes", <<>>))),
             Tail(data))

\* calculate_estimate.py load_measurements
load_measurements(data) == load_measurements_from(<<>>, data)

(***************************************************************************)
(* guaranteed_insulation_scope: the scope filter of the script and the app *)
(***************************************************************************)
IN_SCOPE_SYSTEM_TYPES == {"duct", "pipe", "equipment"}
EXCLUDED_KEYWORDS ==
    {"duct liner", "liner", "internal liner", "acoustic liner",
     "waste", "sanitary", "domestic water", "plumbing", "drain", "sewer",
     "fire sprinkler", "sprinkler pipe", "fire protection pipe",
     "underground", "buried", "below grade"}
EXCLUDED_SPEC_NOTES == {"liner", "internal", "acoustic only", "waste", "plumbing", "sprinkler"}

\* " ".join(l)
RECURSIVE Join(_)
Join(l) ==
    IF l = <<>> THEN ""
    ELSE IF Len(l) = 1 THEN l[1]
    ELSE l[1] \o " " \o Join(Tail(l))

\* str.strip() of spaces
RECURSIVE strip(_)
strip(s) ==
    IF s # "" /\ CharAt(s, 1) = " " THEN strip(SubSeq(s, 2, Len(s)))
    ELSE IF s # "" /\ CharAt(s, Len(s)) = " " THEN strip(SubSeq(s, 1, Len(s) - 1))
    ELSE s

_normalize(s) == strip(lower(s))

_spec_matches_excluded(spec) ==
    LET notes == Join(spec.special_requirements)
        text == _normalize(spec.system_type \o " " \o spec.size_range \o " " \o notes)
    IN \/ \E kw \in EXCLUDED_KEYWORDS : Contains(text, kw)
       \/ \E kw \in EXCLUDED_SPEC_NOTES : Contains(text, kw)
       \/ (spec.system_type = "duct" /\ Contains(text, "liner"))

_measurement_matches_excluded(m) ==
    LET text == _normalize(m.system_type \o " " \o m.size \o " " \o m.location \o " " \o Join(m.notes))
    IN \E kw \in EXCLUDED_KEYWORDS : Contains(text, kw)

\* the two predicates evaluated once for the inputs of the model
SpecExcludedTable == [sp \in SpecPool |-> _spec_matches_excluded(sp)]
SpecExcluded(sp) == Lookup(SpecExcludedTable, sp, _spec_matches_excluded(sp))
MeasurementExcludedTable == [m \in MeasurementPool |-> _measurement_matches_excluded(m)]
MeasurementExcluded(m) == Lookup(MeasurementExcludedTable, m, _measurement_matches_excluded(m))

filter_specs_to_scope(sps) ==
    SelectSeq(sps, LAMBDA sp : sp.system_type \in IN_SCOPE_SYSTEM_TYPES /\ ~SpecExcluded(sp))

filter_measurements_to_scope(ms) ==
    SelectSeq(ms, LAMBDA m : m.system_type \in IN_SCOPE_SYSTEM_TYPES /\ ~MeasurementExcluded(m))

(***************************************************************************)
(* Inputs of the model.                                                    *)
(***************************************************************************)
\* the lists of at most n elements of S
RECURSIVE SeqsUpTo(_, _)
SeqsUpTo(S, n) ==
    IF n = 0 THEN {<<>>}
    ELSE LET shorter == SeqsUpTo(S, n - 1)
         IN shorter \cup {Append(q, x) : q \in {t \in shorter : Len(t) = n - 1}, x \in S}

\* price books (json.load of a flat mapping), in quarter dollars:
\* one without the keys the engine reads with a fallback
PriceBookNoFallbackKeys ==
    [k \in {"aluminum_jacket", "mastic", "stainless_bands"} |-> DefaultPrices[k] + 2]
\* and one without the jacket, mastic and band keys
PriceBookInsulationOnly ==
    [k \in {"fiberglass_1.5", "fiberglass_2.0", "elastomeric_1.0", "fsk_facing"} |-> DefaultPrices[k]]
PriceBooks == {NoPriceBook, PriceBookNoFallbackKeys, PriceBookInsulationOnly}

\* CalculationRequest of POST /generate_quote: markup in twentieths (1.0, 1.15),
\* labor rate in $/hr
Requests ==
    {[markup |-> 20, labor_rate |-> 65, distributor_prices |-> EmptyDict],
     [markup |-> 23, labor_rate |-> 80, distributor_prices |-> EmptyDict],
     [markup |-> 23, labor_rate |-> 65,
      distributor_prices |-> [k \in {"aluminum_jacket", "fsk_facing"} |-> 30]]}

\* the sidebar of the bid-package app (its defaults first)
SidebarSettings ==
    {[labor_rate |-> 65, markup |-> 23, contingency |-> 10],
     [labor_rate |-> 80, markup |-> 20, contingency |-> 15],
     [labor_rate |-> 65, markup |-> 23, contingency |-> 0]}

\* --labor-rate, --markup and --contingency of the script (its defaults first)
ScriptArguments ==
    {[labor_rate |-> 65, markup |-> 20, contingency |-> 10],
     [labor_rate |-> 80, markup |-> 23, contingency |-> 15],
     [labor_rate |-> 65, markup |-> 20, contingency |-> 15]}

(***************************************************************************)
(* State.                                                                  *)
(***************************************************************************)
VARIABLES
    specs,              \* the specifications handed to the engine
    measurements,       \* the measurements handed to the engine
    pc,                 \* "input", then "done" | "raised" | "exit" once a caller ran
    caller,             \* the caller that ran: "endpoint" | "app" | "script"
    engine,             \* the PricingEngine the caller built
    labor_rate,         \* the labor rate the caller asked for
    contingency,        \* the contingency percentage the caller asked for
    applied,            \* what _find_applicable_spec returned for each measurement
    materials,          \* what calculate_materials returned
    labor_hours,        \* what calculate_labor returned, and the caller's labor cost
    labor_cost,
    quote,              \* the ProjectQuote the caller holds at its end
    exc,                \* the exception that ended the caller, "" if none
    request,            \* the arguments the caller was invoked with
    now,                \* the clock: half minutes since the first request
    previous,           \* the quote of the request served before, if any
    raw,                \* the measurement entries not yet ingested: an extraction
                        \* result or the contents of a measurements file
    orchestrator,       \* a WorkflowOrchestrator
    cache,              \* a FileCache, its files and the clock they are read at
    tracker,            \* an APIUsageTracker
    batch,              \* a run of AsyncBatchProcessor.process_batch
    agent,              \* a run of the agent loop
    returned            \* the last call on one of these: [op, value, exc]

vars == <<specs, measurements, pc, caller, engine, labor_rate, contingency, applied,
          materials, labor_hours, labor_cost, quote, exc, request, now, previous,
          raw, orchestrator, cache, tracker, batch, agent, returned>>

\* the estimator's callers and their inputs
estimator_vars == <<specs, measurements, pc, caller, engine, labor_rate, contingency, applied,
                    materials, labor_hours, labor_cost, quote, exc, request, now, previous, raw>>

\* an object not constructed, and no call made
NotBuilt == [none |-> TRUE]
NoCall == [op |-> "", value |-> NotBuilt, exc |-> ""]

NoEngine == [none |-> TRUE]
NoRequest == [none |-> TRUE]

Init ==
    /\ specs \in SeqsUpTo(SpecPool, MaxSpecs)
    /\ measurements \in SeqsUpTo(MeasurementPool, MaxMeas)
    /\ pc = "input"
    /\ caller = ""
    /\ engine = NoEngine
    /\ labor_rate = 65
    /\ contingency = 10
    /\ applied = <<>>
    /\ materials = <<>>
    /\ labor_hours = Zero
    /\ labor_cost = Zero
    /\ quote = NoQuote
    /\ exc = ""
    /\ request = NoRequest
    /\ now = 0
    /\ previous = NoQuote
    /\ raw = <<>>
    /\ orchestrator = NotBuilt
    /\ cache = NotBuilt
    /\ tracker = NotBuilt
    /\ batch = NotBuilt
    /\ agent = NotBuilt
    /\ returned = NoCall

\* a variant of EngineResult in which the engine keeps the fallback price of
\* the facing in its price table
EngineResult_price_kept(self, mats, found, ms, sps) ==
    IF mats.exc # ""
    THEN [exc |-> mats.exc, materials |-> <<>>, hours |-> Zero, cost |-> Zero, applied |-> found,
          self |-> self, measurements |-> ms, specs |-> sps]
    ELSE LET labor == calculate_labor(self, mats.value)
         IN [exc |-> "", materials |-> mats.value, hours |-> labor.hours,
             cost |-> labor.cost, applied |-> found,
             self |-> [self EXCEPT !.prices =
                          [k \in DOMAIN self.prices \cup {"fsk_facing"} |->
                              DictGet(self.prices, k, 5)]],
             measurements |-> ms, specs |-> sps]

\* what a caller holds after calculate_materials returned mats or raised, and
\* calculate_labor ran on the list returned: [exc, materials, hours, cost,
\* applied], and the engine, the measurements and the specifications as the
\* two calls leave them: neither assigns to an attribute of self, of a
\* measurement or of a specification, nor changes a list or dict they hold
EngineResult(self, mats, found, ms, sps) ==
    IF mats.exc # ""
    THEN [exc |-> mats.exc, materials |-> <<>>, hours |-> Zero, cost |-> Zero, applied |-> found,
          self |-> self, measurements |-> ms, specs |-> sps]
    ELSE LET labor == calculate_labor(self, mats.value)
         IN [exc |-> "", materials |-> mats.value, hours |-> labor.hours,
             cost |-> labor.cost, applied |-> found,
             self |-> self, measurements |-> ms, specs |-> sps]
\* the engine part every caller runs: calculate_materials, then calculate_labor
RunEngine(self, ms, sps) ==
    EngineResult(self, calculate_materials(self, ms, sps),
                 [i \in 1..Len(ms) |-> _find_applicable_spec(ms[i], sps)], ms, sps)

\* labor_hours * rate, in 1/MoneyDen
LaborCostAt(hours, rate) == NScale(hours, rate * (MoneyDen \div HoursDen))

\* for key, price in request.distributor_prices.items(): engine.prices[key] = price
WithDistributorPrices(self, distributor_prices) ==
    [self EXCEPT !.prices =
        [k \in DOMAIN self.prices \cup DOMAIN distributor_prices |->
            IF k \in DOMAIN distributor_prices THEN distributor_prices[k] ELSE self.prices[k]]]

\* a caller serves its first request, or the request it answered with a quote
\* comes in once more, elapsed half minutes later (a repetition is followed
\* for requests of MaxRepeated specifications and measurements at most)
Invoked(name, arguments, elapsed) ==
    \/ pc = "input" /\ elapsed = 0
    \/ /\ pc = "done" /\ caller = name /\ request = arguments /\ previous = NoQuote
       /\ Len(specs) + Len(measurements) <= MaxRepeated

\* main.py create_quote_document: POST /generate_quote
create_quote_document(price_book, markup, distributor_prices, rate, elapsed) ==
    /\ Invoked("endpoint", [price_book |-> price_book, markup |-> markup,
                            distributor_prices |-> distributor_prices, labor_rate |-> rate],
               elapsed)
    /\ request' = [price_book |-> price_book, markup |-> markup,
                   distributor_prices |-> distributor_prices, labor_rate |-> rate]
    /\ now' = now + elapsed
    /\ previous' = quote
    /\ \E self \in {WithDistributorPrices(PricingEngine(price_book, markup), distributor_prices)} :
       \E run \in {RunEngine(self, measurements, specs)} :
       \E cost \in {IF rate # 65 THEN LaborCostAt(run.hours, rate) ELSE run.cost} :
          /\ engine' = run.self
          /\ specs' = run.specs
          /\ measurements' = run.measurements
          /\ applied' = run.applied
          /\ materials' = run.materials
          /\ labor_hours' = run.hours
          /\ exc' = run.exc
          /\ IF run.exc # ""
             THEN /\ pc' = "raised"
                  /\ labor_cost' = Zero
                  /\ quote' = NoQuote
             ELSE /\ pc' = "done"
                  /\ labor_cost' = cost
                  /\ quote' = generate_quote("project", run.measurements, run.materials,
                                              run.hours, cost, run.specs, now + elapsed)
    /\ caller' = "endpoint"
    /\ labor_rate' = rate
    /\ UNCHANGED <<contingency, raw>>
    /\ UNCHANGED <<orchestrator, cache, tracker, batch, agent, returned>>

\* a variant of the override that leaves the generated total in place
OverrideQuote_stale_total(q, rate, contingency_pct) ==
    [q EXCEPT !.labor_rate = rate, !.contingency_percent = contingency_pct]

\* guaranteed_insulation_app.py render_calculate_and_bid, lines 298-302: the
\* sidebar's labor rate and contingency written over the generated quote
OverrideQuote(q, rate, contingency_pct) ==
    [q EXCEPT !.labor_rate = rate,
              !.contingency_percent = contingency_pct,
              !.total = WAdd(Wide(q.subtotal), Percent(q.subtotal, contingency_pct))]

\* guaranteed_insulation_app.py render_calculate_and_bid: the button
\* "Generate formal bid package"
render_calculate_and_bid(price_book, markup, rate, contingency_pct, elapsed) ==
    /\ Invoked("app", [price_book |-> price_book, markup |-> markup, labor_rate |-> rate,
                       contingency |-> contingency_pct],
               elapsed)
    /\ request' = [price_book |-> price_book, markup |-> markup, labor_rate |-> rate,
                   contingency |-> contingency_pct]
    /\ now' = now + elapsed
    /\ previous' = quote
    /\ specs # <<>>
    /\ measurements # <<>>
    /\ \E self \in {PricingEngine(price_book, markup)} :
       \E run \in {RunEngine(self, measurements, specs)} :
       \E cost \in {LaborCostAt(run.hours, rate)} :
          /\ engine' = run.self
          /\ specs' = run.specs
          /\ measurements' = run.measurements
          /\ applied' = run.applied
          /\ materials' = run.materials
          /\ labor_hours' = run.hours
          /\ exc' = run.exc
          /\ IF run.exc # ""
             THEN /\ pc' = "raised"
                  /\ labor_cost' = Zero
                  /\ quote' = NoQuote
             ELSE /\ pc' = "done"
                  /\ labor_cost' = cost
                  /\ quote' = OverrideQuote(
                                  generate_quote("project", run.measurements, run.materials,
                                                 run.hours, cost, run.specs, now + elapsed),
                                  rate, contingency_pct)
    /\ caller' = "app"
    /\ labor_rate' = rate
    /\ contingency' = contingency_pct
    /\ UNCHANGED raw
    /\ UNCHANGED <<orchestrator, cache, tracker, batch, agent, returned>>

\* calculate_estimate.py main, lines 170-189, once the inputs are loaded and
\* filtered: [exc, quote, run, cost]
ScriptEstimate(run, rate, contingency_pct) ==
    LET cost == IF rate # 65 THEN LaborCostAt(run.hours, rate) ELSE run.cost
        generator == QuoteGenerator({"project_name", "measurements", "materials",
                                     "labor_hours", "labor_rate", "contingency_percent"})
    IN IF run.exc # "" THEN [exc |-> run.exc, run |-> run, cost |-> Zero]
       ELSE IF generator.exc # "" THEN [exc |-> generator.exc, run |-> run, cost |-> cost]
       \* generator.generate_quote() without its six arguments
       ELSE [exc |-> "TypeError", run |-> run, cost |-> cost]

\* calculate_estimate.py main, lines 155-189: from the scope filter on, with
\* the measurements loaded
ScriptMain(loaded, price_book, markup, rate, contingency_pct) ==
    /\ \E in_specs \in {filter_specs_to_scope(specs)} :
       \E in_measurements \in {filter_measurements_to_scope(loaded)} :
          /\ IF in_measurements = <<>>
             THEN \* sys.exit(0)
                  /\ pc' = "exit"
                  /\ exc' = ""
                  /\ specs' = in_specs
                  /\ measurements' = in_measurements
                  /\ UNCHANGED <<engine, applied, materials, labor_hours, labor_cost>>
             ELSE \E self \in {PricingEngine(price_book, markup)} :
                  \E res \in {ScriptEstimate(RunEngine(self, in_measurements, in_specs),
                                              rate, contingency_pct)} :
                     /\ engine' = res.run.self
                     /\ specs' = res.run.specs
                     /\ measurements' = res.run.measurements
                     /\ applied' = res.run.applied
                     /\ materials' = res.run.materials
                     /\ labor_hours' = res.run.hours
                     /\ labor_cost' = res.cost
                     /\ exc' = res.exc
                     /\ pc' = "raised"
    /\ quote' = NoQuote
    /\ request' = [price_book |-> price_book, markup |-> markup, labor_rate |-> rate,
                   contingency |-> contingency_pct]
    /\ UNCHANGED <<now, previous, raw>>
    /\ UNCHANGED <<orchestrator, cache, tracker, batch, agent, returned>>
    /\ caller' = "script"
    /\ labor_rate' = rate
    /\ contingency' = contingency_pct

\* skills/hvac-insulation-estimation/scripts/calculate_estimate.py main, its
\* files loaded into specs and measurements
calculate_estimate_main(price_book, markup, rate, contingency_pct) ==
    /\ pc = "input"
    /\ ScriptMain(measurements, price_book, markup, rate, contingency_pct)
    
\* guaranteed_insulation_app.py render_upload_and_process: the button
\* "Process PDFs and prepare bid", the extraction having returned specs and
\* the entries raw; a failure empties both lists and is shown, not raised
render_upload_and_process ==
    /\ pc = "raw"
    /\ \E raw_meas \in {IF raw # <<>> THEN manual_entry_measurements(raw) ELSE Ok(<<>>)} :
          IF raw_meas.exc # ""
          THEN /\ specs' = <<>>
               /\ measurements' = <<>>
          ELSE /\ specs' = filter_specs_to_scope(specs)
               /\ measurements' = filter_measurements_to_scope(raw_meas.value)
    /\ pc' = "input"
    /\ caller' = "app"
    /\ UNCHANGED <<engine, labor_rate, contingency, applied, materials, labor_hours,
                   labor_cost, quote, exc, request, now, previous, raw>>
    /\ UNCHANGED <<orchestrator, cache, tracker, batch, agent, returned>>

\* skills/hvac-insulation-estimation/scripts/calculate_estimate.py main, from
\* load_measurements on
calculate_estimate_main_from_files(price_book, markup, rate, contingency_pct) ==
    /\ pc = "raw"
    /\ \E loaded \in {load_measurements(raw)} :
          IF loaded.exc # ""
          THEN /\ pc' = "raised"
               /\ exc' = loaded.exc
               /\ caller' = "script"
               /\ request' = [price_book |-> price_book, markup |-> markup,
                              labor_rate |-> rate, contingency |-> contingency_pct]
               /\ labor_rate' = rate
               /\ contingency' = contingency_pct
               /\ UNCHANGED <<specs, measurements, engine, applied, materials, labor_hours,
                              labor_cost, quote, now, previous, raw>>
               /\ UNCHANGED <<orchestrator, cache, tracker, batch, agent, returned>>
          ELSE ScriptMain(loaded.value, price_book, markup, rate, contingency_pct)

Next ==
    \/ \E price_book \in PriceBooks, body \in Requests, elapsed \in 0..MaxElapsed :
          create_quote_document(price_book, body.markup, body.distributor_prices,
                                body.labor_rate, elapsed)
    \/ \E price_book \in PriceBooks, sidebar \in SidebarSettings, elapsed \in 0..MaxElapsed :
          render_calculate_and_bid(price_book, sidebar.markup, sidebar.labor_rate,
                                   sidebar.contingency, elapsed)
    \/ \E price_book \in PriceBooks \ {NoPriceBook}, args \in ScriptArguments :
          calculate_estimate_main(price_book, args.markup, args.labor_rate, args.contingency)

Spec == Init /\ [][Next]_vars

\* the worked example: a duct specification of 1.5" fiberglass with FSK
\* facing, indoor, and 100 ft of duct "18x12" with 2 elbows and no tee
ExampleSpec == InsulationSpec("duct", "12-24 inch", 3, "fiberglass", "FSK", <<>>, "indoor")
ExampleMeasurement ==
    MeasurementItem("D-1", "duct", "18x12", 200, "Main corridor", 0,
                    [k \in {"elbow", "tee"} |-> IF k = "elbow" THEN 2 ELSE 0], <<>>)

\* the callers on the example, alone or ahead of further specifications and
\* measurements
InitExample ==
    /\ specs \in {<<ExampleSpec>> \o more : more \in SeqsUpTo(SpecPool, MaxSpecs - 1)}
    /\ measurements \in {<<ExampleMeasurement>> \o more :
                              more \in SeqsUpTo(MeasurementPool, MaxMeas - 1)}
    /\ pc = "input"
    /\ caller = ""
    /\ engine = NoEngine
    /\ labor_rate = 65
    /\ contingency = 10
    /\ applied = <<>>
    /\ materials = <<>>
    /\ labor_hours = Zero
    /\ labor_cost = Zero
    /\ quote = NoQuote
    /\ exc = ""
    /\ request = NoRequest
    /\ now = 0
    /\ previous = NoQuote
    /\ raw = <<>>
    /\ orchestrator = NotBuilt
    /\ cache = NotBuilt
    /\ tracker = NotBuilt
    /\ batch = NotBuilt
    /\ agent = NotBuilt
    /\ returned = NoCall

SpecExample == InitExample /\ [][Next]_vars

\* the entries of a batch, at most
MaxRaw == 2

\* the app and the script before ingestion: specifications extracted, and
\* a batch of entries
InitIngest ==
    /\ specs \in SeqsUpTo(SpecPool, MaxSpecs)
    /\ raw \in SeqsUpTo(RawPool, MaxRaw)
    /\ measurements = <<>>
    /\ pc = "raw"
    /\ caller = ""
    /\ engine = NoEngine
    /\ labor_rate = 65
    /\ contingency = 10
    /\ applied = <<>>
    /\ materials = <<>>
    /\ labor_hours = Zero
    /\ labor_cost = Zero
    /\ quote = NoQuote
    /\ exc = ""
    /\ request = NoRequest
    /\ now = 0
    /\ previous = NoQuote
    /\ orchestrator = NotBuilt
    /\ cache = NotBuilt
    /\ tracker = NotBuilt
    /\ batch = NotBuilt
    /\ agent = NotBuilt
    /\ returned = NoCall

NextIngest ==
    \/ render_upload_and_process
    \/ \E price_book \in PriceBooks, sidebar \in SidebarSettings, elapsed \in 0..MaxElapsed :
          render_calculate_and_bid(price_book, sidebar.markup, sidebar.labor_rate,
                                   sidebar.contingency, elapsed)
    \/ \E price_book \in PriceBooks \ {NoPriceBook}, args \in ScriptArguments :
          calculate_estimate_main_from_files(price_book, args.markup, args.labor_rate,
                                             args.contingency)

SpecIngest == InitIngest /\ [][NextIngest]_vars

(***************************************************************************)
(* claude_workflow_enhancement: the WorkflowOrchestrator.  Timestamps,     *)
(* durations, recommendations and the audit trail, which no stage          *)
(* transition reads, are left out; costs are whole cents.                  *)
(***************************************************************************)
\* WorkflowStageName, in the order of _initialize_stages
StageNames ==
    <<"discovery", "document_analysis", "data_enrichment", "calculation", "quote_generation">>

\* WorkflowStage(config=config): config.validation_checks is the empty dict
\* for every stage of _initialize_stages
WorkflowStage(name) ==
    [name |-> name, validation_checks |-> <<>>, is_complete |-> FALSE, data |-> EmptyDict,
     validation_results |-> <<>>, cost |-> 0]

\* WorkflowMetrics()
WorkflowMetrics ==
    [total_cost |-> 0, stages_completed |-> 0, total_validations |-> 0, validations_passed |-> 0]

\* WorkflowOrchestrator._initialize_stages
_initialize_stages == [i \in 1..Len(StageNames) |-> WorkflowStage(StageNames[i])]

\* WorkflowOrchestrator()
WorkflowOrchestrator ==
    [stages |-> _initialize_stages, current_stage_index |-> 0, stage_history |-> <<>>,
     metrics |-> WorkflowMetrics, custom_validations |-> <<>>]

\* the result of a method: the object after the call, the value returned and
\* the exception raised, "" if none
Returns(self, value) == [self |-> self, value |-> value, exc |-> ""]
Raises(self, e) == [self |-> self, value |-> NotBuilt, exc |-> e]

\* the validation functions a caller registers, as functions of the stage's
\* data: (passed, message)
CustomValidations == {"needs_specifications", "needs_measurements"}
CustomCheck(name, data) ==
    IF name = "needs_specifications" THEN "specifications" \in DOMAIN data
    ELSE "measurements" \in DOMAIN data

\* ValidationResult(passed, level, ...)
ValidationResult(passed, level, field) == [passed |-> passed, level |-> level, field |-> field]

\* WorkflowStage.has_critical_issues
has_critical_issues(stage) ==
    \E i \in DOMAIN stage.validation_results : stage.validation_results[i].level = "critical"

\* WorkflowStage.quality_score: [passed, total], 0.0 when total is 0
quality_score(stage) ==
    [passed |-> Cardinality({i \in DOMAIN stage.validation_results :
                                 stage.validation_results[i].passed}),
     total |-> Len(stage.validation_results)]

\* ValidationGate(stage).run_checks(): the results of the checks of the
\* stage's config (a check takes the data and fails where its key is
\* missing), at level OK or WARNING; a gate just made has no _custom_checks
run_checks(stage) ==
    [i \in DOMAIN stage.validation_checks |->
        ValidationResult(stage.validation_checks[i] \in DOMAIN stage.data,
                         IF stage.validation_checks[i] \in DOMAIN stage.data
                         THEN "ok" ELSE "warning",
                         stage.validation_checks[i])]

\* ValidationGate.can_proceed on the gate's results
can_proceed(results) == \A i \in DOMAIN results : results[i].level # "critical"

\* WorkflowOrchestrator.is_complete
is_complete(self) == self.current_stage_index >= Len(self.stages)

\* WorkflowOrchestrator.get_current_stage
get_current_stage(self) ==
    IF 0 <= self.current_stage_index /\ self.current_stage_index < Len(self.stages)
    THEN Returns(self, self.stages[self.current_stage_index + 1])
    ELSE Raises(self, "IndexError")

\* the orchestrator with its current stage replaced
WithCurrent(self, stage) ==
    [self EXCEPT !.stages[self.current_stage_index + 1] = stage]

\* a variant of AdvanceChecked that moves on from a stage not complete
AdvanceChecked_unfinished(self, current, results) ==
    IF ~can_proceed(results) /\ has_critical_issues(current) THEN Returns(self, FALSE)
    ELSE Returns([self EXCEPT
                     !.stage_history = Append(@, [stage |-> current.name, completed |-> TRUE,
                                                  quality_score |-> quality_score(current),
                                                  cost |-> current.cost]),
                     !.current_stage_index = @ + 1,
                     !.metrics.stages_completed = @ + 1],
                 self.current_stage_index + 1 < Len(self.stages))

\* what advance_to_next_stage does once run_checks has stored its results
\* in the current stage
AdvanceChecked(self, current, results) ==
    IF ~can_proceed(results) /\ has_critical_issues(current) THEN Returns(self, FALSE)
    ELSE IF ~current.is_complete THEN Returns(self, FALSE)
    ELSE Returns([self EXCEPT
                     !.stage_history = Append(@, [stage |-> current.name, completed |-> TRUE,
                                                  quality_score |-> quality_score(current),
                                                  cost |-> current.cost]),
                     !.current_stage_index = @ + 1,
                     !.metrics.stages_completed = @ + 1],
                 self.current_stage_index + 1 < Len(self.stages))

\* WorkflowOrchestrator.advance_to_next_stage
advance_to_next_stage(self) ==
    IF get_current_stage(self).exc # "" THEN Raises(self, get_current_stage(self).exc)
    ELSE AdvanceChecked(
             WithCurrent(self, [get_current_stage(self).value EXCEPT
                                   !.validation_results = run_checks(get_current_stage(self).value)]),
             [get_current_stage(self).value EXCEPT
                 !.validation_results = run_checks(get_current_stage(self).value)],
             run_checks(get_current_stage(self).value))

\* the results validate_stage adds for the custom validations
CustomResults(custom_validations, data) ==
    [i \in DOMAIN custom_validations |->
        ValidationResult(CustomCheck(custom_validations[i], data),
                         IF CustomCheck(custom_validations[i], data) THEN "ok" ELSE "critical",
                         None)]

\* ValidationGate.get_summary
get_summary(results) ==
    [can_proceed |-> can_proceed(results),
     passed |-> Cardinality({i \in DOMAIN results : results[i].passed}),
     total |-> Len(results)]

\* what validate_stage does with the results it gathered
Validated(self, current, results) ==
    Returns([WithCurrent(self, [current EXCEPT !.validation_results = results]) EXCEPT
                !.metrics.total_validations = @ + Len(results),
                !.metrics.validations_passed =
                    @ + Cardinality({i \in DOMAIN results : results[i].passed})],
            get_summary(results))

\* WorkflowOrchestrator.validate_stage
validate_stage(self) ==
    IF get_current_stage(self).exc # "" THEN Raises(self, get_current_stage(self).exc)
    ELSE Validated(self, get_current_stage(self).value,
                   run_checks(get_current_stage(self).value)
                       \o CustomResults(self.custom_validations,
                                        get_current_stage(self).value.data))

\* dict.update
DictUpdate(d, data) ==
    [k \in DOMAIN d \cup DOMAIN data |-> IF k \in DOMAIN data THEN data[k] ELSE d[k]]

\* WorkflowOrchestrator.update_stage_data
update_stage_data(self, data) ==
    IF get_current_stage(self).exc # "" THEN Raises(self, get_current_stage(self).exc)
    ELSE Returns(WithCurrent(self, [get_current_stage(self).value EXCEPT
                                       !.data = DictUpdate(@, data)]),
                 None)

\* WorkflowOrchestrator.complete_stage (data None or empty updates nothing)
complete_stage(self, data, cost) ==
    IF get_current_stage(self).exc # "" THEN Raises(self, get_current_stage(self).exc)
    ELSE Returns([WithCurrent(self, [get_current_stage(self).value EXCEPT
                                        !.data = DictUpdate(@, data),
                                        !.is_complete = TRUE,
                                        !.cost = cost]) EXCEPT
                     !.metrics.total_cost = @ + cost],
                 None)

\* WorkflowOrchestrator.add_custom_validation
add_custom_validation(self, validation_func) ==
    Returns([self EXCEPT !.custom_validations = Append(@, validation_func)], None)

\* WorkflowOrchestrator.get_workflow_status
get_workflow_status(self) ==
    Returns(self,
            [current_stage |-> IF ~is_complete(self) THEN get_current_stage(self).value.name
                               ELSE "complete",
             stage_number |-> self.current_stage_index + 1,
             total_stages |-> Len(self.stages),
             stages_completed |-> self.metrics.stages_completed,
             total_cost |-> self.metrics.total_cost])

\* WorkflowOrchestrator.reset: custom_validations stay
reset(self) ==
    Returns([self EXCEPT !.current_stage_index = 0,
                         !.stages = _initialize_stages,
                         !.stage_history = <<>>,
                         !.metrics = WorkflowMetrics],
            None)

\* export_workflow_state(orchestrator)
export_workflow_state(self) ==
    IF get_current_stage(self).exc # "" THEN Raises(self, get_current_stage(self).exc)
    ELSE Returns(self,
                 [current_stage |-> get_current_stage(self).value.name,
                  stage_number |-> self.current_stage_index + 1,
                  total_stages |-> Len(self.stages),
                  stages_completed |-> self.metrics.stages_completed,
                  total_cost |-> self.metrics.total_cost,
                  stage_history |-> self.stage_history,
                  is_complete |-> is_complete(self)])

\* the costs of a stage, in cents, and the data a caller passes
StageCosts == {0, 3}
StageData == {EmptyDict, [k \in {"specifications"} |-> "extracted"]}
\* the total cost, the validations counted and the validations registered,
\* at most
MaxTotalCost == 6
MaxValidations == 2
MaxCustom == 1

\* a call on the orchestrator: the object after it, and what it returned
Called(op, result) ==
    /\ orchestrator' = result.self
    /\ returned' = [op |-> op, value |-> result.value, exc |-> result.exc]
    /\ UNCHANGED estimator_vars
    /\ UNCHANGED <<cache, tracker, batch, agent>>

call_update_stage_data ==
    \E data \in StageData \ {EmptyDict} :
        /\ orchestrator # NotBuilt
        /\ Called("update_stage_data", update_stage_data(orchestrator, data))

call_complete_stage ==
    \E data \in StageData, cost \in StageCosts :
        /\ orchestrator.metrics.total_cost + cost <= MaxTotalCost
        /\ Called("complete_stage", complete_stage(orchestrator, data, cost))

call_add_custom_validation ==
    \E validation_func \in CustomValidations :
        /\ Len(orchestrator.custom_validations) < MaxCustom
        /\ Called("add_custom_validation", add_custom_validation(orchestrator, validation_func))

call_validate_stage ==
    /\ orchestrator.metrics.total_validations + Len(orchestrator.custom_validations)
           <= MaxValidations
    /\ Called("validate_stage", validate_stage(orchestrator))

call_advance_to_next_stage ==
    /\ orchestrator # NotBuilt
    /\ Called("advance_to_next_stage", advance_to_next_stage(orchestrator))

call_get_workflow_status ==
    /\ orchestrator # NotBuilt
    /\ Called("get_workflow_status", get_workflow_status(orchestrator))

call_export_workflow_state ==
    /\ orchestrator # NotBuilt
    /\ Called("export_workflow_state", export_workflow_state(orchestrator))

call_reset ==
    /\ orchestrator # NotBuilt
    /\ Called("reset", reset(orchestrator))

\* the estimator's callers at rest
EstimatorIdle ==
    /\ specs = <<>>
    /\ measurements = <<>>
    /\ pc = "idle"
    /\ caller = ""
    /\ engine = NoEngine
    /\ labor_rate = 65
    /\ contingency = 10
    /\ applied = <<>>
    /\ materials = <<>>
    /\ labor_hours = Zero
    /\ labor_cost = Zero
    /\ quote = NoQuote
    /\ exc = ""
    /\ request = NoRequest
    /\ now = 0
    /\ previous = NoQuote
    /\ raw = <<>>

InitWorkflow ==
    /\ EstimatorIdle
    /\ orchestrator = WorkflowOrchestrator
    /\ cache = NotBuilt
    /\ tracker = NotBuilt
    /\ batch = NotBuilt
    /\ agent = NotBuilt
    /\ returned = NoCall

NextWorkflow ==
    \/ call_update_stage_data
    \/ call_complete_stage
    \/ call_add_custom_validation
    \/ call_validate_stage
    \/ call_advance_to_next_stage
    \/ call_get_workflow_status
    \/ call_export_workflow_state
    \/ call_reset

SpecWorkflow == InitWorkflow /\ [][NextWorkflow]_vars

(***************************************************************************)
(* utils_cache: FileCache.  A cache file is at the path of its category    *)
(* and the SHA-256 of its key, which keeps the keys of the model apart;    *)
(* the time is in seconds since the cache was built.  A file holds its     *)
(* value as JSON text.                                                     *)
(***************************************************************************)
CacheCategories == {"api_responses", "pdf_analysis"}
CacheKeys == {"key1", "key2"}
CacheValues == {"value1", "value2"}
\* the latest time, the longest time-to-live and the most set calls
MaxClock == 1
MaxTtl == 0
MaxSets == 2

\* json.dump and json.load of a str
json_dump(value) == "\"" \o value \o "\""
json_load(text) == SubSeq(text, 2, Len(text) - 1)

NoFile == [none |-> TRUE]
NoSetCall == [none |-> TRUE]
\* a ttl argument: <<>> for None, <<t>> for t seconds
TtlArguments == {<<>>} \cup {<<t>> : t \in 0 .. MaxTtl}

\* FileCache._get_cache_path
_get_cache_path(key, category) == <<category, key>>

\* FileCache.__init__ on an empty directory; set_calls[path] is what the last
\* of the set, invalidate and clear calls on the path was: the set call
\* with the time of the call plus its ttl, or none
FileCache(default_ttl) ==
    [files |-> [path \in CacheCategories \X CacheKeys |-> NoFile],
     default_ttl |-> default_ttl,
     clock |-> 0,
     set_calls |-> [path \in CacheCategories \X CacheKeys |-> NoSetCall],
     sets |-> 0]

\* FileCache._is_expired of a file that set wrote
_is_expired(cache_data, clock) == clock > cache_data.expires_at

\* a variant of set that takes a time-to-live of 0 for none given
cache_set_falsy_ttl(self, key, value, category, ttl) ==
    Returns([self EXCEPT !.files[_get_cache_path(key, category)] =
                 [value |-> json_dump(value),
                  expires_at |-> self.clock + (IF ttl \in {<<>>, <<0>>} THEN self.default_ttl ELSE ttl[1])]],
            None)

\* FileCache.set
cache_set(self, key, value, category, ttl) ==
    Returns([self EXCEPT !.files[_get_cache_path(key, category)] =
                 [value |-> json_dump(value),
                  expires_at |-> self.clock + (IF ttl # <<>> THEN ttl[1] ELSE self.default_ttl)]],
            None)

\* FileCache.get
cache_get(self, key, category) ==
    IF self.files[_get_cache_path(key, category)] = NoFile
    THEN Returns(self, None)
    ELSE IF _is_expired(self.files[_get_cache_path(key, category)], self.clock)
    THEN Returns([self EXCEPT !.files[_get_cache_path(key, category)] = NoFile], None)
    ELSE Returns(self, json_load(self.files[_get_cache_path(key, category)].value))

\* FileCache.invalidate
cache_invalidate(self, key, category) ==
    Returns([self EXCEPT !.files[_get_cache_path(key, category)] = NoFile], None)

\* the files clear(category) deletes: those of the category, or all of them
\* when no category is given
Globbed(self, category) ==
    {path \in DOMAIN self.files :
        /\ self.files[path] # NoFile
        /\ category = None \/ path[1] = category}

\* FileCache.clear
cache_clear(self, category) ==
    Returns([self EXCEPT !.files = [path \in DOMAIN self.files |->
                                       IF path \in Globbed(self, category)
                                       THEN NoFile ELSE self.files[path]]],
            Cardinality(Globbed(self, category)))

\* a call on the cache: the cache after it, the calls on each path that
\* count, and what the call returned
CacheCalled(op, key, category, result, set_calls) ==
    /\ cache' = [result.self EXCEPT !.set_calls = set_calls]
    /\ returned' = [op |-> op, value |-> result.value, exc |-> result.exc,
                    key |-> key, category |-> category]
    /\ UNCHANGED estimator_vars
    /\ UNCHANGED <<orchestrator, tracker, batch, agent>>

call_cache_set ==
    \E key \in CacheKeys, value \in CacheValues, category \in CacheCategories,
       ttl \in TtlArguments :
        /\ cache.sets < MaxSets
        /\ CacheCalled("set", key, category,
                       cache_set([cache EXCEPT !.sets = @ + 1], key, value, category, ttl),
                       [cache.set_calls EXCEPT ![<<category, key>>] =
                            [value |-> value,
                             until |-> cache.clock
                                       + (IF ttl = <<>> THEN cache.default_ttl ELSE ttl[1])]])

call_cache_get ==
    \E key \in CacheKeys, category \in CacheCategories :
        /\ cache # NotBuilt
        /\ CacheCalled("get", key, category, cache_get(cache, key, category),
                       cache.set_calls)

call_cache_invalidate ==
    \E key \in CacheKeys, category \in CacheCategories :
        /\ cache # NotBuilt
        /\ CacheCalled("invalidate", key, category, cache_invalidate(cache, key, category),
                       [cache.set_calls EXCEPT ![<<category, key>>] = NoSetCall])

call_cache_clear ==
    \E category \in {None} \cup CacheCategories :
        /\ cache # NotBuilt
        /\ CacheCalled("clear", None, category, cache_clear(cache, category),
                       [path \in DOMAIN cache.set_calls |->
                           IF category = None \/ path[1] = category
                           THEN NoSetCall ELSE cache.set_calls[path]])

\* a second passes
cache_time_passes ==
    /\ cache.clock < MaxClock
    /\ cache' = [cache EXCEPT !.clock = @ + 1]
    /\ UNCHANGED estimator_vars
    /\ UNCHANGED <<orchestrator, tracker, batch, agent, returned>>

InitCache ==
    /\ EstimatorIdle
    /\ orchestrator = NotBuilt
    /\ cache = FileCache(MaxTtl + 1)
    /\ tracker = NotBuilt
    /\ batch = NotBuilt
    /\ agent = NotBuilt
    /\ returned = NoCall

NextCache ==
    \/ call_cache_set
    \/ call_cache_get
    \/ call_cache_invalidate
    \/ call_cache_clear
    \/ cache_time_passes

SpecCache == InitCache /\ [][NextCache]_vars

(***************************************************************************)
(* utils_tracking: APIUsageTracker.  start_time, the timestamp and the     *)
(* cost_usd of an operation, and the cost and efficiency parts of the      *)
(* summary, which no token total and no operation count reads, are left    *)
(* out.                                                                    *)
(***************************************************************************)
\* the record_usage calls between two resets, at most
MaxOperations == 3

\* response.usage objects: the attributes they have, and their values
Usages ==
    {[a \in {"input_tokens", "output_tokens", "cache_read_input_tokens"} |->
         CASE a = "input_tokens" -> 1000
           [] a = "output_tokens" -> 500
           [] OTHER -> 200],
     [a \in {"input_tokens", "output_tokens"} |->
         IF a = "input_tokens" THEN 700 ELSE 40],
     [a \in {"input_tokens", "output_tokens", "cache_read_input_tokens",
             "cache_creation_input_tokens"} |->
         CASE a = "input_tokens" -> 10
           [] a = "output_tokens" -> 0
           [] a = "cache_read_input_tokens" -> 0
           [] OTHER -> 900]}
OperationNames == {"api_call", "extract_specifications"}

\* getattr(object, name, default)
getattr(object, name, default) ==
    IF name \in DOMAIN object THEN object[name] ELSE default

\* APIUsageTracker()
APIUsageTracker ==
    [input_tokens |-> 0,
     output_tokens |-> 0,
     cache_read_tokens |-> 0,
     cache_write_tokens |-> 0,
     operations |-> <<>>]

\* the entry record_usage appends
Operation(usage, operation) ==
    [operation |-> operation,
     input_tokens |-> usage["input_tokens"],
     output_tokens |-> usage["output_tokens"],
     cache_read_tokens |-> getattr(usage, "cache_read_input_tokens", 0),
     cache_write_tokens |-> getattr(usage, "cache_creation_input_tokens", 0)]

\* a variant of record_usage that leaves cache writes out of the totals
record_usage_without_cache_write(self, usage, operation) ==
    Returns([self EXCEPT
                 !.input_tokens = @ + usage["input_tokens"],
                 !.output_tokens = @ + usage["output_tokens"],
                 !.cache_read_tokens = @ + getattr(usage, "cache_read_input_tokens", 0),
                 !.operations = Append(@, Operation(usage, operation))],
            None)

\* APIUsageTracker.record_usage(response, operation), usage = response.usage
record_usage(self, usage, operation) ==
    Returns([self EXCEPT
                 !.input_tokens = @ + usage["input_tokens"],
                 !.output_tokens = @ + usage["output_tokens"],
                 !.cache_read_tokens = @ + getattr(usage, "cache_read_input_tokens", 0),
                 !.cache_write_tokens = @ + getattr(usage, "cache_creation_input_tokens", 0),
                 !.operations = Append(@, Operation(usage, operation))],
            None)

\* APIUsageTracker.get_summary: its tokens and operations parts
tracker_get_summary(self) ==
    Returns(self,
            [tokens |-> [input |-> self.input_tokens,
                         output |-> self.output_tokens,
                         cache_read |-> self.cache_read_tokens,
                         cache_write |-> self.cache_write_tokens,
                         total |-> self.input_tokens + self.output_tokens],
             operations |-> [total |-> Len(self.operations)]])

\* APIUsageTracker.reset
tracker_reset(self) == Returns(APIUsageTracker, None)

\* a call on the tracker: the tracker after it, the record_usage calls made
\* since the last reset, and what the call returned
TrackerCalled(op, result, recorded) ==
    /\ tracker' = [self |-> result.self, recorded |-> recorded]
    /\ returned' = [op |-> op, value |-> result.value, exc |-> result.exc]
    /\ UNCHANGED estimator_vars
    /\ UNCHANGED <<orchestrator, cache, batch, agent>>

call_record_usage ==
    \E usage \in Usages, operation \in OperationNames :
        /\ tracker.recorded < MaxOperations
        /\ TrackerCalled("record_usage", record_usage(tracker.self, usage, operation),
                         tracker.recorded + 1)

call_tracker_get_summary ==
    /\ tracker # NotBuilt
    /\ TrackerCalled("get_summary", tracker_get_summary(tracker.self), tracker.recorded)

call_tracker_reset ==
    /\ tracker # NotBuilt
    /\ TrackerCalled("reset", tracker_reset(tracker.self), 0)

InitTracker ==
    /\ EstimatorIdle
    /\ orchestrator = NotBuilt
    /\ cache = NotBuilt
    /\ tracker = [self |-> APIUsageTracker, recorded |-> 0]
    /\ batch = NotBuilt
    /\ agent = NotBuilt
    /\ returned = NoCall

NextTracker ==
    \/ call_record_usage
    \/ call_tracker_get_summary
    \/ call_tracker_reset

SpecTracker == InitTracker /\ [][NextTracker]_vars

(***************************************************************************)
(* claude_agent_tools: the calculate_pricing tool.  It builds the          *)
(* estimator's PricingEngine by keyword and calls its calculate_item;      *)
(* the engine is the class of hvac_insulation_estimator, whose __init__    *)
(* takes price_book_path and markup and which has no calculate_item.       *)
(***************************************************************************)
\* the specifications and the measurement_dicts of a call, at most
MaxToolItems == 2

ToolSystemTypes == {"supply_air", "chilled_water"}
ToolSpecification(system_type) ==
    [k \in {"system_type", "material", "thickness"} |->
        CASE k = "system_type" -> system_type
          [] k = "material" -> "fiberglass"
          [] OTHER -> "1.5"]
ToolMeasurement(system_type) ==
    [k \in {"system_type", "size", "length"} |->
        CASE k = "system_type" -> system_type
          [] k = "size" -> "12x12"
          [] OTHER -> "10.0"]
ToolPricebooks == {None, "custom"}
ToolMarkups == {15, 20}
ToolLaborRates == {65, 80}

\* the parameters of PricingEngine.__init__ and the methods of the class
PricingEngineParameters == {"price_book_path", "markup"}
PricingEngineMethods == {"_load_prices", "calculate_materials", "calculate_labor"}

\* PricingEngine(**keywords): Python raises TypeError at the first keyword
\* that is no parameter
RECURSIVE PricingEngineByKeyword(_)
PricingEngineByKeyword(keywords) ==
    IF keywords = <<>> THEN Ok("PricingEngine")
    ELSE IF Head(keywords) \notin PricingEngineParameters
    THEN Raise("PricingEngine.__init__() got an unexpected keyword argument '"
               \o Head(keywords) \o "'")
    ELSE PricingEngineByKeyword(Tail(keywords))

\* engine.<method>: AttributeError when the class has no such method
EngineAttribute(method) ==
    IF method \in PricingEngineMethods THEN Ok(method)
    ELSE Raise("'PricingEngine' object has no attribute '" \o method \o "'")

\* dict.get(key)
dict_get(d, key) == IF key \in DOMAIN d THEN d[key] ELSE None

\* the measurement_dicts that have a specification of their system_type
Matching(specifications, measurement_dicts) ==
    SelectSeq(measurement_dicts,
              LAMBDA measurement :
                  \E i \in 1 .. Len(specifications) :
                      dict_get(specifications[i], "system_type")
                          = dict_get(measurement, "system_type"))

\* what the except clause of calculate_pricing returns
PricingFailed(e) == [success |-> FALSE, error |-> e, total |-> 0]

\* what calculate_pricing returns when nothing raised, which is when no
\* measurement was matched: the totals of no item, in cents and hundredths of
\* an hour
PricingOfNothing(rate) ==
    [success |-> TRUE, materials |-> <<>>, material_subtotal |-> 0, labor_hours |-> 0,
     labor_rate |-> rate, labor_cost |-> 0, subtotal |-> 0,
     contingency_percent |-> 10, contingency |-> 0, total |-> 0]

\* calculate_pricing
calculate_pricing(specifications, measurement_dicts, pricebook, markup_percent, rate) ==
    IF PricingEngineByKeyword(<<"pricebook", "markup_percent", "labor_rate">>).exc # ""
    THEN PricingFailed(PricingEngineByKeyword(<<"pricebook", "markup_percent",
                                                "labor_rate">>).exc)
    ELSE IF Matching(specifications, measurement_dicts) # <<>>
              /\ EngineAttribute("calculate_item").exc # ""
    THEN PricingFailed(EngineAttribute("calculate_item").exc)
    ELSE PricingOfNothing(rate)

ToolSpecifications ==
    UNION {[1 .. n -> {ToolSpecification(t) : t \in ToolSystemTypes}] : n \in 1 .. MaxToolItems}
ToolMeasurements ==
    UNION {[1 .. n -> {ToolMeasurement(t) : t \in ToolSystemTypes}] : n \in 0 .. MaxToolItems}

\* the agent calls the tool
call_calculate_pricing ==
    \E specifications \in ToolSpecifications, measurement_dicts \in ToolMeasurements,
       pricebook \in ToolPricebooks, markup_percent \in ToolMarkups,
       rate \in ToolLaborRates :
        /\ returned' = [op |-> "calculate_pricing",
                        value |-> calculate_pricing(specifications, measurement_dicts, pricebook,
                                                    markup_percent, rate),
                        exc |-> "",
                        matched |-> Len(Matching(specifications, measurement_dicts)),
                        arguments |-> <<specifications, measurement_dicts, pricebook,
                                        markup_percent, rate>>]
        /\ UNCHANGED estimator_vars
        /\ UNCHANGED <<orchestrator, cache, tracker, batch, agent>>

InitTool ==
    /\ EstimatorIdle
    /\ orchestrator = NotBuilt
    /\ cache = NotBuilt
    /\ tracker = NotBuilt
    /\ batch = NotBuilt
    /\ agent = NotBuilt
    /\ returned = NoCall

NextTool == call_calculate_pricing

SpecTool == InitTool /\ [][NextTool]_vars

(***************************************************************************)
(* utils_async: AsyncBatchProcessor.process_batch on the asyncio event     *)
(* loop.  gather starts the coroutines of a chunk in the order they were   *)
(* made; each runs to its await of messages.create and resumes when the    *)
(* API answers, in any order.  api_fails holds the pages whose request     *)
(* ends in an exception.                                                   *)
(***************************************************************************)
\* the pages of a batch and the max_concurrent of a processor, at most
MaxPages == 3
MaxConcurrent == 2

Min(a, b) == IF a <= b THEN a ELSE b

\* pages_data[i:i+self.max_concurrent], i counted from 0; a variant that
\* takes one page more
Chunk_one_more(pages_data, i, max_concurrent) ==
    SubSeq(pages_data, i + 1, Min(i + max_concurrent + 1, Len(pages_data)))

Chunk(pages_data, i, max_concurrent) ==
    SubSeq(pages_data, i + 1, Min(i + max_concurrent, Len(pages_data)))

\* a process_batch call entered: its arguments, the API's behaviour and
\* the locals of the coroutine
process_batch(max_concurrent, pages_data, api_fails) ==
    [max_concurrent |-> max_concurrent,
     pages_data |-> pages_data,
     api_fails |-> api_fails,
     pc |-> "for",
     i |-> 0,
     tasks |-> <<>>,
     all_results |-> <<>>]

\* what process_page_async returns for a page
process_page_async(page_num, failed) ==
    IF failed
    THEN [success |-> FALSE, page_num |-> page_num, error |-> "APIError"]
    ELSE [success |-> TRUE, page_num |-> page_num, response |-> "analysis"]

NoResult == [none |-> TRUE]

\* a step of the batch
BatchStep(after) ==
    /\ batch' = after
    /\ UNCHANGED estimator_vars
    /\ UNCHANGED <<orchestrator, cache, tracker, agent, returned>>

\* the loop takes its next chunk and makes the coroutines of its pages
make_tasks ==
    /\ batch.pc = "for"
    /\ batch.i < Len(batch.pages_data)
    /\ BatchStep([batch EXCEPT
           !.pc = "gather",
           !.tasks = [k \in 1 .. Len(Chunk(batch.pages_data, batch.i, batch.max_concurrent)) |->
                         [page_num |-> Chunk(batch.pages_data, batch.i,
                                             batch.max_concurrent)[k],
                          at |-> "created",
                          result |-> NoResult]]])

\* the next coroutine of the chunk runs to its await: its request is sent
messages_create ==
    \E k \in 1 .. Len(batch.tasks) :
        /\ batch.pc = "gather"
        /\ batch.tasks[k].at = "created"
        /\ \A j \in 1 .. k - 1 : batch.tasks[j].at # "created"
        /\ BatchStep([batch EXCEPT !.tasks[k].at = "awaiting"])

\* the API answers a request, or the request fails, and the coroutine returns
api_answers ==
    \E k \in 1 .. Len(batch.tasks) :
        /\ batch.pc = "gather"
        /\ batch.tasks[k].at = "awaiting"
        /\ BatchStep([batch EXCEPT
               !.tasks[k].at = "done",
               !.tasks[k].result =
                   process_page_async(batch.tasks[k].page_num,
                                      batch.tasks[k].page_num \in batch.api_fails)])

\* every coroutine of the chunk returned: gather returns their results in
\* the order of the coroutines, and the loop sleeps when pages are left
gather_returns ==
    /\ batch.pc = "gather"
    /\ \A k \in 1 .. Len(batch.tasks) : batch.tasks[k].at = "done"
    /\ BatchStep([batch EXCEPT
           !.all_results = @ \o [k \in 1 .. Len(batch.tasks) |-> batch.tasks[k].result],
           !.tasks = <<>>,
           !.pc = IF batch.i + batch.max_concurrent < Len(batch.pages_data)
                  THEN "sleep" ELSE "for",
           !.i = IF batch.i + batch.max_concurrent < Len(batch.pages_data)
                 THEN @ ELSE @ + batch.max_concurrent])

\* asyncio.sleep(self.rate_limit_delay) ends
sleep_ends ==
    /\ batch.pc = "sleep"
    /\ BatchStep([batch EXCEPT !.pc = "for", !.i = @ + batch.max_concurrent])

\* the loop is over: process_batch returns all_results
process_batch_returns ==
    /\ batch.pc = "for"
    /\ batch.i >= Len(batch.pages_data)
    /\ batch' = [batch EXCEPT !.pc = "done"]
    /\ returned' = [op |-> "process_batch", value |-> batch.all_results, exc |-> ""]
    /\ UNCHANGED estimator_vars
    /\ UNCHANGED <<orchestrator, cache, tracker, agent>>

\* the page numbers of a batch: ascending or descending
BatchPages == 
    UNION {{[k \in 1 .. n |-> k], [k \in 1 .. n |-> n + 1 - k]} : n \in 0 .. MaxPages}

InitBatch ==
    /\ EstimatorIdle
    /\ orchestrator = NotBuilt
    /\ cache = NotBuilt
    /\ tracker = NotBuilt
    /\ \E max_concurrent \in 1 .. MaxConcurrent, pages_data \in BatchPages,
          api_fails \in SUBSET (1 .. MaxPages) :
           batch = process_batch(max_concurrent, pages_data, api_fails)
    /\ agent = NotBuilt
    /\ returned = NoCall

NextBatch ==
    \/ make_tasks
    \/ messages_create
    \/ api_answers
    \/ gather_returns
    \/ sleep_ends
    \/ process_batch_returns

SpecBatch == InitBatch /\ [][NextBatch]_vars

(***************************************************************************)
(* The agent loops: HVACInsulationSkill.run (hvac_insulation_skill) and    *)
(* InsulationEstimationAgent.run (claude_estimation_agent).  A run is      *)
(* [class, max_iterations, iterations, pc, stop_reason, history,           *)
(* api_calls]: iterations is the loop counter of run, history the length   *)
(* of conversation_history, api_calls the messages.create calls made.      *)
(***************************************************************************)
\* the max_iterations of a run, at most
MaxIterations == 4

AgentClasses == {"HVACInsulationSkill", "InsulationEstimationAgent"}
\* response.stop_reason, and "raised" for a messages.create that raised
StopReasons == {"end_turn", "tool_use", "max_tokens", "stop_sequence"}

\* run entered: the user message is in the history
run(class, max_iterations) ==
    [class |-> class,
     max_iterations |-> max_iterations,
     iterations |-> 0,
     pc |-> "while",
     stop_reason |-> "",
     history |-> 1,
     api_calls |-> 0]

\* the test of the while loop; a variant that lets one more iteration in
LoopContinues_once_more(iterations, max_iterations) == iterations <= max_iterations

LoopContinues(iterations, max_iterations) == iterations < max_iterations

\* what run returns after the loop
MaxIterationsReached(self) ==
    IF self.class = "HVACInsulationSkill"
    THEN [success |-> FALSE,
          response |-> "Maximum tool use iterations reached",
          iterations |-> self.iterations,
          stop_reason |-> "max_iterations"]
    ELSE [response |-> "I've been working on this for a while. Let me summarize what I've found so far..."]

\* what run returns on a response that asks for no tool, or on an exception
RunEnded(self, stop_reason) ==
    IF self.class = "HVACInsulationSkill"
    THEN CASE stop_reason = "end_turn" ->
                  [success |-> TRUE, response |-> "text",
                   iterations |-> self.iterations, stop_reason |-> "end_turn"]
           [] stop_reason = "max_tokens" ->
                  [success |-> FALSE, response |-> "text",
                   iterations |-> self.iterations, stop_reason |-> "max_tokens"]
           [] stop_reason = "raised" ->
                  [success |-> FALSE, response |-> "Error: APIError",
                   iterations |-> self.iterations, stop_reason |-> ""]
           [] OTHER ->
                  [success |-> FALSE,
                   response |-> "Unexpected stop reason: " \o stop_reason,
                   iterations |-> self.iterations, stop_reason |-> stop_reason]
    ELSE CASE stop_reason = "end_turn" -> [response |-> "text"]
           [] stop_reason = "max_tokens" ->
                  [response |-> "text[Response truncated - continue conversation for more details]"]
           [] stop_reason = "raised" -> [response |-> "I encountered an error: APIError"]
           [] OTHER ->
                  [response |-> "Unexpected response from agent (stop_reason: "
                                \o stop_reason \o ")"]

\* a step of a run that does not return
AgentStep(after) ==
    /\ agent' = after
    /\ UNCHANGED estimator_vars
    /\ UNCHANGED <<orchestrator, cache, tracker, batch, returned>>

\* a step of a run that returns
AgentReturns(after, value) ==
    /\ agent' = [after EXCEPT !.pc = "returned"]
    /\ returned' = [op |-> "run", value |-> value, exc |-> ""]
    /\ UNCHANGED estimator_vars
    /\ UNCHANGED <<orchestrator, cache, tracker, batch>>

\* the while test: into the body (where InsulationEstimationAgent counts the
\* iteration), or past the loop to the return
while_test ==
    /\ agent.pc = "while"
    /\ IF LoopContinues(agent.iterations, agent.max_iterations)
       THEN AgentStep([agent EXCEPT
                !.pc = "create",
                !.iterations = IF agent.class = "InsulationEstimationAgent"
                               THEN @ + 1 ELSE @])
       ELSE AgentReturns(agent, MaxIterationsReached(agent))

\* self.client.messages.create returns a response or raises, and run
\* branches on the stop reason
model_responds ==
    \E stop_reason \in StopReasons \cup {"raised"} :
        /\ agent.pc = "create"
        /\ IF stop_reason = "tool_use"
           THEN AgentStep([agent EXCEPT
                    !.pc = "tools",
                    !.stop_reason = stop_reason,
                    !.api_calls = @ + 1,
                    !.history = IF agent.class = "HVACInsulationSkill" THEN @ + 1 ELSE @])
           ELSE AgentReturns([agent EXCEPT
                    !.stop_reason = stop_reason,
                    !.api_calls = @ + 1,
                    !.history = IF stop_reason \in {"raised", "stop_sequence"}
                                   /\ agent.class = "InsulationEstimationAgent"
                                THEN @
                                ELSE IF stop_reason = "raised" THEN @ ELSE @ + 1],
                    RunEnded(agent, stop_reason))

\* _execute_tools returns the tool results, those of failed tools included,
\* and they go into the history (HVACInsulationSkill counts the iteration)
tools_executed ==
    /\ agent.pc = "tools"
    /\ AgentStep([agent EXCEPT
           !.pc = "while",
           !.history = IF agent.class = "HVACInsulationSkill" THEN @ + 1 ELSE @ + 2,
           !.iterations = IF agent.class = "HVACInsulationSkill" THEN @ + 1 ELSE @])

InitAgent ==
    /\ EstimatorIdle
    /\ orchestrator = NotBuilt
    /\ cache = NotBuilt
    /\ tracker = NotBuilt
    /\ batch = NotBuilt
    /\ \E class \in AgentClasses, max_iterations \in 0 .. MaxIterations :
           agent = run(class, max_iterations)
    /\ returned = NoCall

NextAgent ==
    \/ while_test
    \/ model_responds
    \/ tools_executed

SpecAgent == InitAgent /\ [][NextAgent]_vars

\* every model call and every tool call returns, and the interpreter goes on
SpecAgentFair == SpecAgent /\ WF_vars(NextAgent)

(***************************************************************************)
(* Vocabulary of the properties.                                           *)
(***************************************************************************)
\* the caller got a materials list back from calculate_materials
MaterialsReturned == pc \in {"done", "raised"} /\ exc # "KeyError"

\* the positions of the specifications with the system type of m
MatchingSpecs(m) == {k \in 1..Len(specs) : specs[k].system_type = m.system_type}
HasMatch(m) == MatchingSpecs(m) # {}
FirstMatch(m) == specs[CHOOSE k \in MatchingSpecs(m) : \A h \in MatchingSpecs(m) : k <= h]

\* the categories of the items a measurement is due, given the specification applied
ExpectedCategories(sp) ==
    IF sp = NoSpec THEN <<>>
    ELSE <<"insulation">>
         \o (IF Truthy(sp.facing) \/ InList("aluminum_jacket", sp.special_requirements)
             THEN <<"jacket">> ELSE <<>>)
         \o (IF InList("mastic_coating", sp.special_requirements) THEN <<"mastic">> ELSE <<>>)
         \o (IF InList("stainless_bands", sp.special_requirements) THEN <<"accessories">> ELSE <<>>)

\* the categories due to the first n measurements, in input order
RECURSIVE ExpectedUpTo(_)
ExpectedUpTo(n) ==
    IF n = 0 THEN <<>> ELSE ExpectedUpTo(n - 1) \o ExpectedCategories(applied[n])

\* where the items of measurement i start in materials
GroupStart(i) == Len(ExpectedUpTo(i - 1)) + 1

\* s ends with t
EndsWith(s, t) == Len(t) <= Len(s) /\ SubSeq(s, Len(s) - Len(t) + 1, Len(s)) = t

\* C1: _find_applicable_spec returns the first specification, in list order,
\* whose system_type equals the measurement's, and None when there is none;
\* no other field takes part in the choice.
C1_FirstSpecOfSystemType ==
    pc \in {"done", "raised"} =>
        /\ Len(applied) = Len(measurements)
        /\ \A i \in 1..Len(measurements) :
              IF HasMatch(measurements[i])
              THEN applied[i] = FirstMatch(measurements[i])
              ELSE applied[i] = NoSpec

\* C1 witness: one run in which a measurement had two different candidate
\* specifications and another measurement had none
C1_Witness ==
    /\ pc = "done"
    /\ \E i \in 1..Len(measurements) :
          /\ Cardinality(MatchingSpecs(measurements[i])) = 2
          /\ specs[1] # specs[2]
          /\ applied[i] = specs[1]
    /\ \E j \in 1..Len(measurements) : applied[j] = NoSpec

\* C2: calculate_materials never raises, whatever keys the price table lacks.
C2_CalculateMaterialsNeverRaises == exc # "KeyError"

\* C3: a run ends as the run without the measurements that match no
\* specification ends: the same items, the same labor hours, an exception
\* only if that run raises one; when no measurement matches there is no
\* item, no hour and no exception.
C3_NoMatchSkipped ==
    pc \in {"done", "raised"} =>
        \E without \in {RunEngine(engine, SelectSeq(measurements, HasMatch), specs)} :
           /\ (exc = "KeyError") = (without.exc = "KeyError")
           /\ materials = without.materials
           /\ labor_hours = without.hours
           /\ (\A i \in 1..Len(measurements) : ~HasMatch(measurements[i]))
                  => materials = <<>> /\ labor_hours = Zero /\ exc # "KeyError"

\* C3 witness: a measurement without a specification ahead of one with a
\* specification, whose items were produced
C3_Witness ==
    /\ pc = "done"
    /\ Len(measurements) = 2
    /\ ~HasMatch(measurements[1])
    /\ HasMatch(measurements[2])
    /\ materials # <<>>
    /\ labor_hours # Zero

\* C4: the returned materials are, measurement by measurement in input
\* order, one insulation item, then a jacket item iff the specification has
\* a facing or aluminum_jacket, a mastic item iff mastic_coating, a bands
\* item iff stainless_bands; the insulation item is the measurement's own.
C4_ItemsInOrder ==
    MaterialsReturned =>
        /\ [k \in 1..Len(materials) |-> materials[k].category] = ExpectedUpTo(Len(measurements))
        /\ \A i \in 1..Len(measurements) :
              applied[i] # NoSpec =>
                  EndsWith(materials[GroupStart(i)].description, " - " \o measurements[i].size)

\* C4 witness: a measurement with all four items followed by one with
\* insulation, facing and mastic
C4_Witness ==
    /\ pc = "done"
    /\ [k \in 1..Len(materials) |-> materials[k].category]
           = <<"insulation", "jacket", "mastic", "accessories", "insulation", "jacket", "mastic">>
    /\ measurements[1].size # measurements[2].size

\* C5: the insulation quantity is length * (1 + 0.5 * elbows + 1.0 * tees),
\* an absent count being 0 and any other fitting having no effect.
C5_FittingAllowance ==
    MaterialsReturned =>
        \A i \in 1..Len(measurements) :
            applied[i] # NoSpec =>
                LET m == measurements[i]
                    item == materials[GroupStart(i)]
                    elbows == IF "elbow" \in DOMAIN m.fittings THEN m.fittings["elbow"] ELSE 0
                    tees == IF "tee" \in DOMAIN m.fittings THEN m.fittings["tee"] ELSE 0
                IN /\ item.category = "insulation"
                   /\ item.quantity.p = 0
                   /\ item.quantity.r * LenDen * MultDen
                          = QtyDen * m.length * (MultDen + elbows + 2 * tees)

\* C5 witness: 2 elbows and 1 tee triple the length (1 ft gives 3 LF), next
\* to a measurement whose valves count for nothing
C5_Witness ==
    /\ pc = "done"
    /\ Len(measurements) = 2
    /\ applied[1] # NoSpec /\ applied[2] # NoSpec
    /\ measurements[1].fittings = [k \in {"elbow", "tee"} |-> IF k = "elbow" THEN 2 ELSE 1]
    /\ measurements[1].length = 2
    /\ materials[1].quantity = Num(3 * QtyDen, 0)
    /\ "valve" \in DOMAIN measurements[2].fittings

\* the hours per unit, in 1/RateDen, that C6 and C7 state for an item of
\* measurement m
ClaimedRate(category, system_type) ==
    CASE category = "insulation" -> (IF system_type = "duct" THEN 9 ELSE 7)
      [] category = "jacket" -> 5
      [] category = "mastic" -> 3
      [] OTHER -> 0

\* the measurement whose group holds materials[k]
OwnerOf(k) == CHOOSE i \in 1..Len(measurements) :
                  GroupStart(i) <= k /\ k < GroupStart(i + 1)

RECURSIVE ClaimedHoursUpTo(_)
ClaimedHoursUpTo(n) ==
    IF n = 0 THEN Zero
    ELSE NAdd(ClaimedHoursUpTo(n - 1),
              NScale(materials[n].quantity,
                     ClaimedRate(materials[n].category, measurements[OwnerOf(n)].system_type)))

\* C6: on the output of calculate_materials, calculate_labor charges the
\* insulation of a duct measurement 0.45 h/LF and that of a pipe measurement
\* 0.35 h/LF (jacket 0.25, mastic 0.15, with the 20% overhead).
C6_DuctAndPipeRates ==
    MaterialsReturned => labor_hours = NScale(ClaimedHoursUpTo(Len(materials)), 6)

\* the hours per unit, in 1/RateDen, calculate_labor is specified to charge
\* for an item: insulation by whether its description mentions a duct
SpecifiedRate(material) ==
    CASE material.category = "insulation" ->
             (IF MentionsDuctOf(material.description) THEN 9 ELSE 7)
      [] material.category = "jacket" -> 5
      [] material.category = "mastic" -> 3
      [] OTHER -> 0

RECURSIVE SpecifiedHoursUpTo(_)
SpecifiedHoursUpTo(n) ==
    IF n = 0 THEN Zero
    ELSE NAdd(SpecifiedHoursUpTo(n - 1), NScale(materials[n].quantity, SpecifiedRate(materials[n])))

\* C7: total_hours = 1.20 * sum of quantity * rate, the rate being 0.25 for a
\* jacket, 0.15 for mastic and 0 for accessories; no material gives 0 hours
\* and 0 labor cost.
C7_LaborHours ==
    /\ labor_hours = NScale(SpecifiedHoursUpTo(Len(materials)), 6)
    /\ (materials = <<>> => labor_hours = Zero /\ labor_cost = Zero)

\* C7 witness: hours were computed for a list with a jacket, a mastic and a
\* bands item
C7_Witness ==
    /\ pc = "done"
    /\ \E k \in 1..Len(materials) : materials[k].category = "jacket"
    /\ \E k \in 1..Len(materials) : materials[k].category = "mastic"
    /\ \E k \in 1..Len(materials) : materials[k].category = "accessories"
    /\ labor_hours # Zero

\* C8: whenever a caller holds a quote, generated or overridden,
\* total = subtotal * (1 + contingency_percent / 100).
C8_TotalFromSubtotal ==
    quote # NoQuote => quote.total = Percent(quote.subtotal, 100 + quote.contingency_percent)

\* C8 witness: the app overrode the contingency of a non-zero quote to 15%
C8_Witness ==
    /\ caller = "app"
    /\ quote # NoQuote
    /\ quote.contingency_percent = 15
    /\ quote.subtotal # Zero

\* C9: subtotal = sum of the materials' total_price + labor_hours * labor_rate,
\* labor_rate being the quote's.
C9_SubtotalAtQuotedRate ==
    quote # NoQuote =>
        quote.subtotal = NAdd(SumTotalPrice(quote.materials),
                              LaborCostAt(quote.labor_hours, quote.labor_rate))

\* C10: the script, run with an in-scope measurement, produces a quote with
\* the contingency and labor rate asked for and
\* total = subtotal * (1 + contingency / 100).
C10_ScriptQuote ==
    (caller = "script" /\ pc # "exit" /\ exc # "KeyError") =>
        /\ quote # NoQuote
        /\ quote.contingency_percent = contingency
        /\ quote.labor_rate = labor_rate
        /\ quote.total = Percent(quote.subtotal, 100 + contingency)

\* the (description, unit) pair of a material or of an entry of the material list
PairOf(x) == <<x.description, x.unit>>

\* the sums of quantity and of total_price over the first n materials with a pair
RECURSIVE QuantityOfPair(_, _, _)
QuantityOfPair(ms, pair, n) ==
    IF n = 0 THEN Zero
    ELSE IF PairOf(ms[n]) = pair THEN NAdd(QuantityOfPair(ms, pair, n - 1), ms[n].quantity)
    ELSE QuantityOfPair(ms, pair, n - 1)
RECURSIVE TotalPriceOfPair(_, _, _)
TotalPriceOfPair(ms, pair, n) ==
    IF n = 0 THEN Zero
    ELSE IF PairOf(ms[n]) = pair THEN NAdd(TotalPriceOfPair(ms, pair, n - 1), ms[n].total_price)
    ELSE TotalPriceOfPair(ms, pair, n - 1)

\* x is not behind y in the ascending order of (category, description)
InOrder(x, y) ==
    \/ StrLess(x.category, y.category)
    \/ x.category = y.category /\ ~StrLess(y.description, x.description)

\* C11: the material list of a quote holds one entry per distinct
\* (description, unit) pair of the materials, each with the sums of quantity
\* and total_price over the materials of its pair, in ascending order of
\* (category, description); without duplicate pairs every material comes
\* back with its own quantity and total.
C11_MaterialListConsolidated ==
    quote # NoQuote =>
        /\ \A i, j \in DOMAIN quote.material_list :
               i # j => PairOf(quote.material_list[i]) # PairOf(quote.material_list[j])
        /\ {PairOf(quote.material_list[i]) : i \in DOMAIN quote.material_list}
               = {PairOf(quote.materials[k]) : k \in DOMAIN quote.materials}
        /\ \A i \in DOMAIN quote.material_list :
               /\ quote.material_list[i].quantity
                      = QuantityOfPair(quote.materials, PairOf(quote.material_list[i]),
                                       Len(quote.materials))
               /\ quote.material_list[i].total_price
                      = TotalPriceOfPair(quote.materials, PairOf(quote.material_list[i]),
                                         Len(quote.materials))
        /\ \A i, j \in DOMAIN quote.material_list :
               i < j => InOrder(quote.material_list[i], quote.material_list[j])
        /\ (Len(quote.material_list) = Len(quote.materials)
               => \A k \in DOMAIN quote.materials : \E i \in DOMAIN quote.material_list :
                      /\ PairOf(quote.material_list[i]) = PairOf(quote.materials[k])
                      /\ quote.material_list[i].quantity = quote.materials[k].quantity
                      /\ quote.material_list[i].total_price = quote.materials[k].total_price)

\* C11 witness: two measurements shared their mastic and bands entries, and
\* the list opens with the bands, which the materials do not
C11_Witness ==
    /\ quote # NoQuote
    /\ Len(quote.materials) = 8
    /\ Len(quote.material_list) = 6
    /\ quote.material_list[1].category = "accessories"
    /\ quote.materials[1].category = "insulation"
    /\ quote.materials[1].description # quote.materials[5].description

\* C12: the total_price entries of the material list add up to the
\* total_price of the materials.
C12_MaterialListTotal ==
    quote # NoQuote => SumTotalPrice(quote.material_list) = SumTotalPrice(quote.materials)

\* C12 witness: a list in which two mastic items were merged into one entry
\* carrying both totals
C12_Witness ==
    /\ quote # NoQuote
    /\ Len(quote.material_list) < Len(quote.materials)
    /\ \E i \in DOMAIN quote.material_list :
          /\ quote.material_list[i].category = "mastic"
          /\ \E k \in DOMAIN quote.materials :
                /\ quote.materials[k].category = "mastic"
                /\ quote.material_list[i].total_price.p > quote.materials[k].total_price.p

\* the elevation changes of the first n measurements of a quote
RECURSIVE ElevationChangesUpTo(_)
ElevationChangesUpTo(n) ==
    IF n = 0 THEN 0 ELSE ElevationChangesUpTo(n - 1) + quote.measurements[n].elevation_changes

\* the notes ahead of the last four
LeadingNotes == SubSeq(quote.notes, 1, Len(quote.notes) - 4)
\* the leading notes that start with a text
NotesStarting(text) ==
    {i \in DOMAIN LeadingNotes :
        Len(LeadingNotes[i]) >= Len(text) /\ SubSeq(LeadingNotes[i], 1, Len(text)) = text}

\* C18: the notes of a quote are the weather note iff a specification's
\* location contains "outdoor", the vapor-seal note iff a specification
\* requires mastic_coating, the vertical-work note with the exact count iff
\* the elevation changes add up to more than 10, in this order, and then
\* the same four standard notes: 4 to 7 notes in all.
C18_Notes ==
    quote # NoQuote =>
        /\ Len(quote.notes) \in 4..7
        /\ SubSeq(quote.notes, Len(quote.notes) - 3, Len(quote.notes))
               = <<"Pricing valid for 30 days", "Subject to final site verification",
                   "Assumes clear access to work areas",
                   "All work per project specifications and applicable codes">>
        /\ (NotesStarting("Weather protection") # {})
               = (\E i \in DOMAIN specs : Contains(specs[i].location, "outdoor"))
        /\ (NotesStarting("Vapor seal") # {})
               = (\E i \in DOMAIN specs : "mastic_coating" \in Range(specs[i].special_requirements))
        /\ (NotesStarting("Significant vertical work") # {})
               = (ElevationChangesUpTo(Len(quote.measurements)) > 10)
        /\ \A i \in NotesStarting("Significant vertical work") :
               LeadingNotes[i] = "Significant vertical work: "
                                     \o NatToStr(ElevationChangesUpTo(Len(quote.measurements)))
                                     \o " elevation changes"
        /\ \A i \in NotesStarting("Weather protection") : i = 1
        /\ \A i \in NotesStarting("Vapor seal"), j \in NotesStarting("Significant vertical work") :
               i < j
        /\ Cardinality(NotesStarting("Weather protection") \cup NotesStarting("Vapor seal")
                           \cup NotesStarting("Significant vertical work")) = Len(LeadingNotes)

\* C18 witness: all seven notes, with 16 elevation changes counted
C18_Witness ==
    /\ quote # NoQuote
    /\ Len(quote.notes) = 7
    /\ quote.notes[3] = "Significant vertical work: 16 elevation changes"
    /\ quote.notes[1] = "Weather protection jacketing included for outdoor applications"

\* ten elevation changes, and no vertical-work note
C18_AtTen ==
    /\ quote # NoQuote
    /\ ElevationChangesUpTo(Len(quote.measurements)) = 10
    /\ NotesStarting("Significant vertical work") = {}

MaxStretch == 2

\* C14: with the specifications, fittings, prices and markup fixed, a longer
\* measurement has an insulation item of strictly larger quantity and
\* strictly larger total_price.
C14_LongerCostsMore ==
    MaterialsReturned =>
        \A i \in 1..Len(measurements) :
            applied[i] # NoSpec =>
                \A extra \in 1..MaxStretch :
                    /\ NGreater(_calculate_insulation(
                                    engine, [measurements[i] EXCEPT !.length = @ + extra],
                                    applied[i]).quantity,
                                materials[GroupStart(i)].quantity)
                    /\ NGreater(_calculate_insulation(
                                    engine, [measurements[i] EXCEPT !.length = @ + extra],
                                    applied[i]).total_price,
                                materials[GroupStart(i)].total_price)

\* C14 witness: materials of a measurement of 1.5 ft with an elbow, whose
\* insulation item is the first, under a markup of 1.15
C14_Witness ==
    /\ pc = "done"
    /\ engine.markup = 23
    /\ Len(measurements) >= 1
    /\ applied[1] # NoSpec
    /\ measurements[1].length = 3
    /\ "elbow" \in DOMAIN measurements[1].fittings
    /\ materials[1].category = "insulation"
    /\ materials[1].total_price.r > 0

\* C15: two invocations of generate_quote never give the same quote_number,
\* be they in the same minute or at the same instant.
C15_DistinctQuoteNumbers ==
    previous # NoQuote => previous.quote_number # quote.quote_number

\* the example ran through the endpoint at markup 1.0, with the default
\* prices and a labor rate of 65
ExampleQuoted ==
    /\ pc = "done"
    /\ caller = "endpoint"
    /\ specs = <<ExampleSpec>>
    /\ measurements = <<ExampleMeasurement>>
    /\ request.price_book = NoPriceBook
    /\ request.markup = 20
    /\ request.labor_rate = 65
    /\ request.distributor_prices = EmptyDict

\* C16: on the example the engine yields 200 LF of insulation at 900 and
\* 392.7 SF of facing (100 * pi * (12 + 3) / 12 = 125 pi) at 490.88
\* (156.25 pi), labor hours (200 * 0.45 + 125 pi * 0.25) * 1.2 = 225.81
\* (108 + 37.5 pi), hence a subtotal of 7920 + 2593.75 pi = 16,068.53 and a
\* total of 1.1 times that, 17,675.38.
C16_Example ==
    ExampleQuoted =>
        /\ Len(quote.materials) = 2
        /\ quote.materials[1].quantity = Num(200 * QtyDen, 0)
        /\ quote.materials[1].total_price = Num(900 * MoneyDen, 0)
        /\ quote.materials[2].quantity = Num(0, 125 * QtyDen)
        /\ quote.materials[2].total_price = Num(0, 625 * (MoneyDen \div 4))
        /\ quote.labor_hours = Num(108 * HoursDen, 75 * (HoursDen \div 2))
        /\ quote.subtotal = Num(7920 * MoneyDen, 10375 * (MoneyDen \div 4))
        /\ quote.total = Percent(Num(7920 * MoneyDen, 10375 * (MoneyDen \div 4)), 110)

\* what the example gives: 175 pi SF of facing (549.78) at 218.75 pi
\* (687.22), 84 + 52.5 pi hours (248.93)
C16_ExampleAsComputed ==
    /\ ExampleQuoted
    /\ quote.materials[1].quantity = Num(200 * QtyDen, 0)
    /\ quote.materials[1].total_price = Num(900 * MoneyDen, 0)
    /\ quote.materials[2].quantity = Num(0, 175 * QtyDen)
    /\ quote.materials[2].total_price = Num(0, 875 * (MoneyDen \div 4))
    /\ quote.labor_hours = Num(84 * HoursDen, 105 * (HoursDen \div 2))

\* an entry whose length is a number that is not negative, or the text of one
WellFormed(entry) ==
    /\ "length" \in DOMAIN entry
    /\ \/ entry.length.type = "number" /\ entry.length.value >= 0
       \/ entry.length = JsonString("3")

\* the well-formed entries of the batch, ingested by the caller's loader and
\* filtered to the scope
WellFormedIngested ==
    IF caller = "app"
    THEN filter_measurements_to_scope(manual_entry_measurements(SelectSeq(raw, WellFormed)).value)
    ELSE filter_measurements_to_scope(load_measurements(SelectSeq(raw, WellFormed)).value)

\* C17: an entry of a batch whose length is negative or no number is
\* rejected alone: manual_entry_measurements and load_measurements return
\* the well-formed entries of the batch, and no measurement of negative
\* length reaches the calculation.
C17_OffendingItemOnly ==
    (pc # "raw" /\ caller \in {"app", "script"}) =>
        /\ exc # "ValueError"
        /\ \A i \in DOMAIN measurements : measurements[i].length >= 0
        /\ measurements = WellFormedIngested

\* the app priced a measurement of negative length
C17_NegativePriced ==
    /\ pc = "done"
    /\ \E i \in DOMAIN measurements : measurements[i].length < 0 /\ applied[i] # NoSpec
    /\ materials[1].quantity.r < 0

\* a batch of a well-formed entry and one whose length is no number, of
\* which the app kept nothing
C17_BatchLost ==
    /\ pc = "input"
    /\ caller = "app"
    /\ Len(raw) = 2
    /\ WellFormed(raw[1])
    /\ raw[2].length = JsonString("12 ft")
    /\ measurements = <<>>
    /\ WellFormedIngested # <<>>

\* the engine as the caller constructed it from its arguments
AsConstructed ==
    IF caller = "endpoint"
    THEN WithDistributorPrices(PricingEngine(request.price_book, request.markup),
                               request.distributor_prices)
    ELSE PricingEngine(request.price_book, request.markup)

FirstNumberOfSize(size) ==
    CASE size = "18x12" -> 18 * InchDen
      [] size = "Duct 10" -> 10 * InchDen
      [] size = "2.5\"" -> 5
      [] size = "round" -> 12 * InchDen

\* C20: a jacket item and a mastic item have the quantity
\* length * pi * (d + 2 * thickness) / 12 square feet, d being the first
\* number of the size and 12.0 without one, and length the measurement's
\* own length, not the length adjusted for fittings.
C20_SurfaceArea ==
    MaterialsReturned =>
        \A k \in DOMAIN materials :
            materials[k].category \in {"jacket", "mastic"} =>
                /\ materials[k].unit = "SF"
                /\ materials[k].quantity.r = 0
                /\ materials[k].quantity.p * LenDen * InchDen * 12
                       = QtyDen * measurements[OwnerOf(k)].length
                           * (FirstNumberOfSize(measurements[OwnerOf(k)].size)
                                + 2 * applied[OwnerOf(k)].thickness)

\* C20 witness: 1 ft of "18x12" with 2 elbows and a tee under 2" of
\* insulation: 3 LF of insulation, and 1 * pi * 22 / 12 SF of jacket and of
\* mastic; after it a size without a number
C20_Witness ==
    /\ pc = "done"
    /\ Len(measurements) = 2
    /\ measurements[1].size = "18x12"
    /\ measurements[1].length = 2
    /\ measurements[2].size = "round"
    /\ applied[1] # NoSpec /\ applied[1].thickness = 4
    /\ applied[2] # NoSpec
    /\ materials[1].quantity = Num(3 * QtyDen, 0)
    /\ materials[2].category = "jacket"
    /\ materials[2].quantity = Num(0, 88)
    /\ materials[3].category = "mastic"
    /\ materials[3].quantity = Num(0, 88)
    /\ \E k \in DOMAIN materials : materials[k].category = "mastic" /\ OwnerOf(k) = 2

\* the stage the orchestrator is at, 0 to 5
StageIndex == orchestrator.current_stage_index

\* C21: a new orchestrator has the five stages in their order and is at
\* discovery; the stage index changes through advance_to_next_stage, by
\* one and from a complete stage only, and through reset, to 0; past the
\* fifth stage the status reports current_stage "complete" and
\* stages_completed = 5.
C21_StagesInOrder ==
    /\ (orchestrator # NotBuilt =>
            /\ StageIndex = 0
            /\ [i \in 1..5 |-> orchestrator.stages[i].name]
                   = <<"discovery", "document_analysis", "data_enrichment", "calculation",
                       "quote_generation">>)
    /\ [][/\ Len(orchestrator'.stages) = 5
          /\ \A i \in 1..5 : orchestrator'.stages[i].name = orchestrator.stages[i].name
          /\ StageIndex' # StageIndex =>
                 \/ /\ returned'.op = "advance_to_next_stage"
                    /\ StageIndex' = StageIndex + 1
                    /\ orchestrator.stages[StageIndex + 1].is_complete
                 \/ /\ returned'.op = "reset"
                    /\ StageIndex' = 0
          /\ orchestrator'.metrics.stages_completed = StageIndex'
          /\ (returned'.op = "get_workflow_status" /\ StageIndex' < 5) =>
                 /\ returned'.exc = ""
                 /\ returned'.value.current_stage = orchestrator.stages[StageIndex + 1].name
          /\ (returned'.op = "get_workflow_status" /\ StageIndex' = 5) =>
                 /\ returned'.exc = ""
                 /\ returned'.value.current_stage = "complete"
                 /\ returned'.value.stages_completed = 5]_vars

\* C21 witness: the status asked for once all five stages were completed
\* and advanced past
C21_Witness ==
    /\ orchestrator # NotBuilt
    /\ StageIndex = 5
    /\ [i \in 1..5 |-> orchestrator.stage_history[i].stage]
           = <<"discovery", "document_analysis", "data_enrichment", "calculation",
               "quote_generation">>
    /\ returned.op = "get_workflow_status"
    /\ returned.value.current_stage = "complete"
    /\ returned.value.stages_completed = 5

\* C22: advance_to_next_stage called on a stage for which validate_stage
\* recorded a CRITICAL result returns False and leaves the stage index,
\* also when the stage is complete.
C22_CriticalBlocksAdvance ==
    [][(/\ returned'.op = "advance_to_next_stage"
        /\ StageIndex < 5
        /\ has_critical_issues(orchestrator.stages[StageIndex + 1]))
          => /\ returned'.value = FALSE
             /\ StageIndex' = StageIndex]_vars

\* a complete stage with a CRITICAL result that was advanced from
C22_AdvancedPastCritical ==
    /\ orchestrator # NotBuilt
    /\ returned.op = "advance_to_next_stage"
    /\ returned.value = TRUE
    /\ StageIndex = 1
    /\ orchestrator.custom_validations = <<"needs_specifications">>
    /\ orchestrator.stages[1].data = EmptyDict
    /\ orchestrator.metrics.total_validations = 1
    /\ orchestrator.metrics.validations_passed = 0

\* C28: a call of advance_to_next_stage that returns False leaves
\* current_stage_index, metrics.stages_completed and stage_history as they
\* were, and one that returns True has raised current_stage_index by one.
C28_FalseMeansUnmoved ==
    [][(returned'.op = "advance_to_next_stage" /\ returned'.exc = "") =>
          /\ returned'.value = FALSE =>
                 /\ StageIndex' = StageIndex
                 /\ orchestrator'.metrics.stages_completed = orchestrator.metrics.stages_completed
                 /\ orchestrator'.stage_history = orchestrator.stage_history
          /\ returned'.value = TRUE => StageIndex' = StageIndex + 1]_vars

\* the advance from the last stage: False returned, and the workflow moved
C28_LastAdvance ==
    /\ orchestrator # NotBuilt
    /\ returned.op = "advance_to_next_stage"
    /\ returned.value = FALSE
    /\ StageIndex = 5
    /\ orchestrator.metrics.stages_completed = 5
    /\ Len(orchestrator.stage_history) = 5

\* the costs of the first n stages
RECURSIVE StageCostUpTo(_)
StageCostUpTo(n) == IF n = 0 THEN 0 ELSE StageCostUpTo(n - 1) + orchestrator.stages[n].cost

\* C29: metrics.total_cost is the sum of the costs of the stages, whatever
\* was called, complete_stage twice on a stage included.
C29_TotalCostIsSum ==
    orchestrator # NotBuilt => orchestrator.metrics.total_cost = StageCostUpTo(5)

\* discovery completed twice at 3 cents: the stage costs 3, the total is 6
C29_CountedTwice ==
    /\ orchestrator # NotBuilt
    /\ StageIndex = 0
    /\ orchestrator.stages[1].cost = 3
    /\ orchestrator.metrics.total_cost = 6

\* C30: export_workflow_state raises in no state, and past the last stage
\* it returns is_complete = true and stages_completed = 5.
C30_ExportSucceeds ==
    (orchestrator # NotBuilt /\ returned.op = "export_workflow_state") =>
        /\ returned.exc = ""
        /\ StageIndex = 5 =>
               returned.value.is_complete /\ returned.value.stages_completed = 5

\* the export asked for past the last stage: IndexError
C30_ExportRaised ==
    /\ orchestrator # NotBuilt
    /\ StageIndex = 5
    /\ returned.op = "export_workflow_state"
    /\ returned.exc = "IndexError"

\* C23: get(key, category) returns the value of the most recent
\* set(key, value, category, ttl) when the time is not after the time of that
\* set plus its ttl and no invalidate or clear of the entry came after it,
\* and None otherwise (a key never set included); a get that finds an expired
\* entry removes its file; clear returns the number of entries it removed,
\* and after clear() no entry is left, so every get returns None.
Unexpired(set_call, clock) ==
    /\ set_call # NoSetCall
    /\ clock <= set_call.until

C23_GetReturnsLatestSet ==
    [][/\ cache'.clock = cache.clock /\ returned'.op = "get" =>
            /\ returned'.value =
                   IF Unexpired(cache.set_calls[<<returned'.category, returned'.key>>],
                                cache.clock)
                   THEN cache.set_calls[<<returned'.category, returned'.key>>].value
                   ELSE None
            /\ returned'.value = None =>
                   cache'.files[<<returned'.category, returned'.key>>] = NoFile
       /\ cache'.clock = cache.clock /\ returned'.op = "clear" =>
            /\ returned'.value =
                   Cardinality({path \in DOMAIN cache.files :
                                   /\ cache.files[path] # NoFile
                                   /\ cache'.files[path] = NoFile})
            /\ returned'.category = None =>
                   \A key \in CacheKeys, category \in CacheCategories :
                       cache_get(cache', key, category).value = None]_vars

\* C23's case: a get after an entry's time ran out finds the file and
\* removes it; and a get of a live entry returns the later of two values set
C23_ExpiredRemoved ==
    /\ returned.op = "get"
    /\ returned.value = None
    /\ cache.set_calls[<<returned.category, returned.key>>] # NoSetCall
    /\ cache.files[<<returned.category, returned.key>>] = NoFile
    /\ cache.sets = 2

\* C24: after any sequence of record_usage and reset calls, each of the four
\* token totals is the sum of its field over the entries of operations,
\* operations has one entry for each record_usage call since the last reset,
\* get_summary()["operations"]["total"] is that number, and right after a
\* reset the four totals are 0 and operations is empty.
RECURSIVE SumOver(_, _)
SumOver(operations, field) ==
    IF operations = <<>> THEN 0
    ELSE operations[1][field] + SumOver(Tail(operations), field)

C24_TotalsAreSums ==
    /\ tracker.self.input_tokens = SumOver(tracker.self.operations, "input_tokens")
    /\ tracker.self.output_tokens = SumOver(tracker.self.operations, "output_tokens")
    /\ tracker.self.cache_read_tokens = SumOver(tracker.self.operations, "cache_read_tokens")
    /\ tracker.self.cache_write_tokens = SumOver(tracker.self.operations, "cache_write_tokens")
    /\ Len(tracker.self.operations) = tracker.recorded
    /\ returned.op = "get_summary" => returned.value.operations.total = tracker.recorded
    /\ returned.op = "reset" =>
           /\ tracker.self.input_tokens = 0
           /\ tracker.self.output_tokens = 0
           /\ tracker.self.cache_read_tokens = 0
           /\ tracker.self.cache_write_tokens = 0
           /\ tracker.self.operations = <<>>

\* C24's case: a summary taken after two record_usage calls, with cache
\* reads and cache writes among them
C24_SummaryOfTwo ==
    /\ returned.op = "get_summary"
    /\ returned.value.operations.total = 2
    /\ tracker.self.cache_write_tokens > 0
    /\ tracker.self.cache_read_tokens > 0

\* C25: calculate_pricing called with well-formed inputs of which at least
\* one measurement has a matching specification returns success = true, with
\* subtotal = material_subtotal + labor_hours * labor_rate and
\* total = subtotal * 1.10 (amounts in cents, hours in hundredths).
C25_PricingSucceeds ==
    (returned.op = "calculate_pricing" /\ returned.matched >= 1) =>
        /\ returned.value.success
        /\ 100 * returned.value.subtotal =
               100 * returned.value.material_subtotal
               + returned.value.labor_hours * returned.value.labor_rate
        /\ 100 * returned.value.total = 110 * returned.value.subtotal

\* the reachable state that refutes C25: a call with a matched measurement
\* ends in the except clause
C25_PricingFailed ==
    /\ returned.op = "calculate_pricing"
    /\ returned.matched >= 1
    /\ ~returned.value.success

\* C26: process_batch never has more than max_concurrent requests in
\* flight; while the coroutines of a chunk exist every page before the chunk
\* has its result (a chunk starts only after the one before it finished);
\* the list returned has one result for each input page, in input order; and
\* the result of a page is success = false exactly when its request failed,
\* whatever happened to the other pages.
InFlight == {k \in 1 .. Len(batch.tasks) : batch.tasks[k].at = "awaiting"}

C26_BoundedAndOrdered ==
    /\ Cardinality(InFlight) <= batch.max_concurrent
    /\ batch.tasks # <<>> =>
           /\ Len(batch.all_results) = batch.i
           /\ \A k \in 1 .. Len(batch.tasks) :
                  batch.tasks[k].page_num = batch.pages_data[batch.i + k]
    /\ batch.pc = "done" =>
           /\ Len(returned.value) = Len(batch.pages_data)
           /\ \A k \in 1 .. Len(batch.pages_data) :
                  /\ returned.value[k].page_num = batch.pages_data[k]
                  /\ returned.value[k].success = (batch.pages_data[k] \notin batch.api_fails)

\* C26's case: a batch of more pages than max_concurrent, one request
\* failed and a later one answered, has returned
C26_ReturnedWithFailure ==
    /\ batch.pc = "done"
    /\ Len(batch.pages_data) > batch.max_concurrent
    /\ batch.max_concurrent > 1
    /\ ~returned.value[1].success
    /\ returned.value[Len(batch.pages_data)].success

\* C27: when every model call and tool call returns, a run of
\* HVACInsulationSkill.run or InsulationEstimationAgent.run returns; it
\* makes at most max_iterations model calls; a run whose last response still
\* asked for tools returns the max-iterations result, after max_iterations
\* calls; and a response with any other stop reason ends the run at once.
C27_RunTerminates ==
    /\ [](/\ agent.api_calls <= agent.max_iterations
          /\ (agent.pc = "returned" /\ agent.stop_reason \in {"", "tool_use"}) =>
                 /\ returned.value = MaxIterationsReached(agent)
                 /\ agent.api_calls = agent.max_iterations
          /\ agent.stop_reason \notin {"", "tool_use"} =>
                 /\ agent.pc = "returned"
                 /\ returned.value # MaxIterationsReached(agent))
    /\ <>(agent.pc = "returned")

\* C27's case: a run of more than one iteration in which the model asked
\* for tools every time has returned
C27_ToolsToTheEnd ==
    /\ agent.pc = "returned"
    /\ agent.stop_reason = "tool_use"
    /\ agent.max_iterations > 1
    /\ agent.api_calls = agent.max_iterations

====
